---------------------------- MODULE Spec2Model ----------------------------
(* A model of the PR review agent: the diff reconciler and the token        *)
(* budgeter of agent/diff_parser.py, the review pipeline and the report of  *)
(* agent/reviewer.py (ReviewEngine.review over asyncio tasks,               *)
(* format_summary_body) and the cleanup of agent/github_client.py.          *)
EXTENDS Integers, Sequences, FiniteSets, TLC

VARIABLES
    \* ---- find_closest_line applied to an input (SpecFind)
    fpc, fTarget, fKeys, fResult,
    \* ---- parse_patch_line_map applied to a patch (SpecPatch)
    ppc, pPatch, pMap, pAssigned, pLine, pContent,
    \* ---- compress_diff_for_summary applied to a file list (SpecCompress)
    cpc, cFiles, cMaxTokens, cRemovedTok, cOut,
    \* ---- ReviewEngine.review (Spec)
    pc, files, skipped_files, suggest_logging, scenario,
    summary, summaryResp, rtask, ltask, sem, total_usage, comments, result,
    \* the stages in which a task ended before a task created earlier
    overtaken,
    \* the gateway calls sent so far, each with the number of times it was sent
    calls,
    \* ---- GitHubClient.cleanup_previous_reviews (SpecCleanup)
    kpc, kIssue, kReview, kPage, kBatch, kDenied, kAllOk, kDeleted,
    \* ---- format_summary_body applied to a result (SpecFormat)
    gpc, gComments, gStats,
    \* ---- AIClient._extract_json applied to a text (SpecJson)
    jpc, jText, jStyle, jPlain, jFenced,
    \* ---- the severity and category of one review candidate (SpecEnum)
    epc, eSeverity, eCategory, eOut,
    \* ---- one candidate of a per-file answer (SpecCandidate)
    qpc, qCategory, qItem, qOut,
    \* ---- GitHubClient.get_pr_files (SpecFetch)
    hpc, hMaxFiles, hFiles, hSkipped, hPage, hFetched, hLast,
    \* ---- GitHubClient.post_review (SpecPost)
    opc, oComments, oSent, oCreated, oAnswer, oReturn,
    \* ---- run() and _run_review (SpecMain)
    mpc, mSkipDrafts, mDraft, mIgnored, mBot, mFiles, mTrace

findVars == <<fpc, fTarget, fKeys, fResult>>
patchVars == <<ppc, pPatch, pMap, pAssigned, pLine, pContent>>
compressVars == <<cpc, cFiles, cMaxTokens, cRemovedTok, cOut>>
engineVars == <<pc, files, skipped_files, suggest_logging, scenario,
                summary, summaryResp, rtask, ltask, sem, total_usage, comments,
                result, overtaken, calls>>
cleanupVars == <<kpc, kIssue, kReview, kPage, kBatch, kDenied, kAllOk, kDeleted>>
formatVars == <<gpc, gComments, gStats>>
jsonVars == <<jpc, jText, jStyle, jPlain, jFenced>>
enumVars == <<epc, eSeverity, eCategory, eOut>>
candVars == <<qpc, qCategory, qItem, qOut>>
fetchVars == <<hpc, hMaxFiles, hFiles, hSkipped, hPage, hFetched, hLast>>
postVars == <<opc, oComments, oSent, oCreated, oAnswer, oReturn>>
mainVars == <<mpc, mSkipDrafts, mDraft, mIgnored, mBot, mFiles, mTrace>>
auxVars == <<jsonVars, enumVars, candVars, fetchVars, postVars, mainVars>>
vars == <<findVars, patchVars, compressVars, engineVars, cleanupVars, formatVars, auxVars>>

\* ------------------------------------------------------------------------
\* Bounds of the model
\* ------------------------------------------------------------------------
MaxKey == 6
MaxPatchLen == 5
MaxStart == 3
\* compress_diff_for_summary: varied files at the head of the list, then a
\* run of identical files; token costs and budgets
MaxHead == 2
MaxFill == 11
MaxAdd == 1
MaxTok == 2
MaxBudget == 3
\* ReviewEngine.review: files of a run, candidates of a response array,
\* tasks of a run with more files than permits, usage of one call
MaxFiles == 2
MaxItems == 2
MaxTasks == 6
UsageIn == 2
UsageOut == 1
\* cleanup_previous_reviews: comments beyond a full page, comments of other
\* authors at the head of a listing
MaxOver == 1
MaxPlain == 1
\* format_summary_body: comments of a result
MaxComments == 4
\* _extract_json: lines of a text
MaxLines == 3
\* _run_review: reviewable files that get_pr_files returns
MaxReviewable == 2
\* post_review: inline comments of a review, ids the server gives
MaxInline == 2
MaxId == 2
\* get_pr_files: the max_files argument, files of a page
MaxLimit == 1
MaxBatch == 2

\* Python's "int | None": None is the empty tuple, a number n is <<n>>.
None == << >>
Some(n) == <<n>>

Abs(x) == IF x < 0 THEN -x ELSE x

\* ------------------------------------------------------------------------
\* Unified-diff lines.  A raw line is its first characters (as many as the
\* code looks at) and, for a hunk header, the number captured by group 1 of
\* _HUNK_HEADER_RE (the new-file start).
\* ------------------------------------------------------------------------
Hdr(c) == [pre |-> <<"@", "@", " ">>, start |-> c]
CtxLine == [pre |-> <<" ", "x">>, start |-> 0]
AddLine == [pre |-> <<"+", "x">>, start |-> 0]
\* an added line whose content starts with "++" (e.g. "++i;")
AddPlusPlus == [pre |-> <<"+", "+", "+">>, start |-> 0]
DelLine == [pre |-> <<"-", "x">>, start |-> 0]
\* a deleted line whose content starts with "--" (e.g. a SQL comment)
DelMinusMinus == [pre |-> <<"-", "-", "-">>, start |-> 0]
\* "\ No newline at end of file"
NoNewlineMarker == [pre |-> <<"\\", " ", "N">>, start |-> 0]

startswith(raw, s) ==
    /\ Len(raw.pre) >= Len(s)
    /\ SubSeq(raw.pre, 1, Len(s)) = s

hunk_match(raw) == startswith(raw, <<"@", "@", " ">>)

EmptyMap == << >>

MapPut(m, k, v) == [x \in (DOMAIN m) \cup {k} |-> IF x = k THEN v ELSE m[x]]

\* the content of a raw line: the line without its first character
Content(raw) == [raw EXCEPT !.pre = Tail(@)]

\* One iteration of the loop of parse_patch_line_map.  assigned is a history
\* of the writes line_map[current_line] = raw_line: <<position, key>>.
ParseStepStoresDeleted(st, raw, pos) ==
    IF hunk_match(raw)
    THEN [st EXCEPT !.current_line = raw.start]
    ELSE IF startswith(raw, <<"+">>) \/ startswith(raw, <<"-">>)
    THEN [current_line |-> st.current_line + 1,
          line_map |-> MapPut(st.line_map, st.current_line, raw),
          assigned |-> Append(st.assigned, <<pos, st.current_line>>)]
    ELSE [st EXCEPT !.current_line = st.current_line + 1]

ParseStepStripped(st, raw, pos) ==
    IF hunk_match(raw)
    THEN [st EXCEPT !.current_line = raw.start]
    ELSE IF startswith(raw, <<"+">>) /\ ~startswith(raw, <<"+", "+", "+">>)
    THEN [current_line |-> st.current_line + 1,
          line_map |-> MapPut(st.line_map, st.current_line, Content(raw)),
          assigned |-> Append(st.assigned, <<pos, st.current_line>>)]
    ELSE IF startswith(raw, <<"-">>) /\ ~startswith(raw, <<"-", "-", "-">>)
    THEN st
    ELSE [st EXCEPT !.current_line = st.current_line + 1]

ParseStep(st, raw, pos) ==
    IF hunk_match(raw)
    THEN [st EXCEPT !.current_line = raw.start]
    ELSE IF startswith(raw, <<"+">>) /\ ~startswith(raw, <<"+", "+", "+">>)
    THEN [current_line |-> st.current_line + 1,
          line_map |-> MapPut(st.line_map, st.current_line, raw),
          assigned |-> Append(st.assigned, <<pos, st.current_line>>)]
    ELSE IF startswith(raw, <<"-">>) /\ ~startswith(raw, <<"-", "-", "-">>)
    THEN st
    ELSE [st EXCEPT !.current_line = st.current_line + 1]

RECURSIVE ParseState(_, _)
ParseState(patch, n) ==
    IF n = 0
    THEN [current_line |-> 0, line_map |-> EmptyMap, assigned |-> << >>]
    ELSE ParseStep(ParseState(patch, n - 1), patch[n], n)

parse_patch_line_map(patch) == ParseState(patch, Len(patch)).line_map

\* extract_line_content: None for a line that is no key, else the raw line
\* without its leading "+"
extract_line_content(line, line_map) ==
    IF line \notin DOMAIN line_map THEN None
    ELSE IF startswith(line_map[line], <<"+">>) THEN Some(Content(line_map[line]))
    ELSE Some(line_map[line])

\* range(1, 4) of find_closest_line: the largest offset probed
MAX_OFFSET == 3

\* find_closest_line: the probes target+1, target-1, ..., target+3, target-3.
RECURSIVE ProbeMinusFirst(_, _, _)
ProbeMinusFirst(target, keys, offset) ==
    IF offset > MAX_OFFSET THEN None
    ELSE IF (target - offset) \in keys THEN Some(target - offset)
    ELSE IF (target + offset) \in keys THEN Some(target + offset)
    ELSE ProbeMinusFirst(target, keys, offset + 1)

RECURSIVE Probe(_, _, _)
Probe(target, keys, offset) ==
    IF offset > MAX_OFFSET THEN None
    ELSE IF (target + offset) \in keys THEN Some(target + offset)
    ELSE IF (target - offset) \in keys THEN Some(target - offset)
    ELSE Probe(target, keys, offset + 1)

RECURSIVE ProbeShort(_, _, _)
ProbeShort(target, keys, offset) ==
    IF offset >= MAX_OFFSET THEN None
    ELSE IF (target + offset) \in keys THEN Some(target + offset)
    ELSE IF (target - offset) \in keys THEN Some(target - offset)
    ELSE ProbeShort(target, keys, offset + 1)

find_closest_line_short(target, line_map) ==
    IF DOMAIN line_map = {} THEN None
    ELSE IF target \in DOMAIN line_map THEN Some(target)
    ELSE ProbeShort(target, DOMAIN line_map, 1)

find_closest_line_minus_first(target, line_map) ==
    IF DOMAIN line_map = {} THEN None
    ELSE IF target \in DOMAIN line_map THEN Some(target)
    ELSE ProbeMinusFirst(target, DOMAIN line_map, 1)

find_closest_line(target, line_map) ==
    IF DOMAIN line_map = {} THEN None
    ELSE IF target \in DOMAIN line_map THEN Some(target)
    ELSE Probe(target, DOMAIN line_map, 1)

\* ------------------------------------------------------------------------
\* compress_diff_for_summary.  count_tokens is the tokenizer's count: the
\* cost of a file's block (header + patch) is the file's tok, the cost of
\* the deleted-files line is removed_tok.  The output is the list of parts
\* that "\n\n".join concatenates.
\* ------------------------------------------------------------------------
\* overflow[:10]
OVERFLOW_SHOWN == 10

Part(kind, names, tok, count, more) ==
    [kind |-> kind, names |-> names, tok |-> tok, count |-> count, more |-> more]

IsRemoved(f) == f.status = "removed"
IsActive(f) == f.status # "removed"

Names(fs) == [i \in DOMAIN fs |-> fs[i].filename]

\* sorted(..., key=additions, reverse=True): stable, equal keys keep their order
SortRank(a, i) ==
    1 + Cardinality({j \in DOMAIN a : a[j].additions > a[i].additions})
      + Cardinality({j \in DOMAIN a : j < i /\ a[j].additions = a[i].additions})

in_input_order(a) == a

sorted_by_additions(a) ==
    [r \in DOMAIN a |-> a[CHOOSE i \in DOMAIN a : SortRank(a, i) = r]]

Prefix(q, n) == SubSeq(q, 1, IF Len(q) < n THEN Len(q) ELSE n)

\* One iteration of "for f in active_files"
PackStepCutoff(st, f, max_tokens) ==
    IF st.used_tokens + f.tok > max_tokens \/ st.overflow # << >>
    THEN [st EXCEPT !.overflow = IF st.overflow = << >> THEN <<f.filename>> ELSE @]
    ELSE [st EXCEPT !.parts = Append(@, Part("entry", <<f.filename>>, f.tok, 0, FALSE)),
                    !.used_tokens = @ + f.tok]

PackStep(st, f, max_tokens) ==
    IF st.used_tokens + f.tok > max_tokens
    THEN [st EXCEPT !.overflow = Append(@, f.filename)]
    ELSE [st EXCEPT !.parts = Append(@, Part("entry", <<f.filename>>, f.tok, 0, FALSE)),
                    !.used_tokens = @ + f.tok]

RECURSIVE PackState(_, _, _, _)
PackState(active, n, max_tokens, start) ==
    IF n = 0 THEN start
    ELSE PackStep(PackState(active, n - 1, max_tokens, start), active[n], max_tokens)

compress_diff_for_summary(fs, max_tokens, removed_tok) ==
    LET removed_files == SelectSeq(fs, IsRemoved)
        active_files == sorted_by_additions(SelectSeq(fs, IsActive))
        start == IF removed_files # << >>
                 THEN [parts |-> <<Part("deleted", Names(removed_files), removed_tok, 0, FALSE)>>,
                       used_tokens |-> removed_tok,
                       overflow |-> << >>]
                 ELSE [parts |-> << >>, used_tokens |-> 0, overflow |-> << >>]
        st == PackState(active_files, Len(active_files), max_tokens, start)
    IN IF st.overflow # << >>
       THEN Append(st.parts,
                   Part("overflow", Prefix(st.overflow, OVERFLOW_SHOWN), 0,
                        Len(st.overflow), Len(st.overflow) > OVERFLOW_SHOWN))
       ELSE st.parts

\* ------------------------------------------------------------------------
\* ReviewEngine (agent/reviewer.py)
\* ------------------------------------------------------------------------
LIGHTWEIGHT_THRESHOLD == 15
MAX_CONCURRENT_REVIEWS == 5

TITLE == "title"

HasPatch(f) == f.patch # << >>

\* tasks = [_one(f) for f in files if f.patch]
AllFiles(fs) == fs

TaskFiles(fs) == SelectSeq(fs, HasPatch)

use_lightweight_additions_only(f) == f.additions <= LIGHTWEIGHT_THRESHOLD

use_lightweight(f) ==
    f.additions <= LIGHTWEIGHT_THRESHOLD /\ f.deletions <= LIGHTWEIGHT_THRESHOLD

\* AIClient.complete_json: the model identifier of the tier, reported in usage
Usage(lightweight) ==
    [input_tokens |-> UsageIn, output_tokens |-> UsageOut,
     model |-> IF lightweight THEN "lightweight" ELSE "primary"]

\* A call of AIClient.complete_json: the stage that sends it, the file it is
\* about (0 for the summary call) and its tier (the lightweight argument).
Call(stage, path, lightweight) ==
    [stage |-> stage, path |-> path,
     tier |-> IF lightweight THEN "lightweight" ELSE "primary"]

AddCall(sent, c) ==
    IF c \in DOMAIN sent THEN [sent EXCEPT ![c] = @ + 1]
    ELSE [x \in (DOMAIN sent) \cup {c} |-> IF x = c THEN 1 ELSE sent[x]]

NoUsage == [input_tokens |-> 0, output_tokens |-> 0, model |-> ""]

\* _merge_usage; usage without a "model" key ({}) is NoUsage
merge_usage(total, usage) ==
    [input_tokens |-> total.input_tokens + usage.input_tokens,
     output_tokens |-> total.output_tokens + usage.output_tokens,
     model |-> IF usage.model # "" THEN usage.model ELSE total.model]

\* ---- the candidates of a response array
\* line: None (missing or null) or Some(n); body: "missing", "null" (JSON
\* null), "blank" (only whitespace) or "text"
\* reason and level are keys of a logging candidate only
LogItem(isdict, line, body, reason, level) ==
    [isdict |-> isdict, line |-> line, body |-> body,
     reason |-> reason, level |-> level]

Item(isdict, line, body) == LogItem(isdict, line, body, "text", "text")

\* item.get("body", "").strip(), for a body that is not null
strip(body) == IF body = "text" THEN "text" ELSE ""

\* lang = file.language or "text"
Lang(f) == IF f.language = "" THEN "text" ELSE f.language

\* The body of a comment: the tag of its fenced block ("" when it has none)
\* and the texts it holds.
\* _review_single_file: the badge header and the candidate's body
review_body == [fence |-> "", holds |-> {"header", "body"}]

\* _suggest_logging_single_file: the header, the log statement in a block
\* fenced with the file's language, and the reason
logging_body(lang) == [fence |-> lang, holds |-> {"header", "log_statement", "reason"}]

Comment(f, line, category, k) ==
    [path |-> f.filename, line |-> line, category |-> category, item |-> k,
     body |-> IF category = "LOGGING" THEN logging_body(Lang(f)) ELSE review_body]

\* "if line not in line_map: line = find_closest_line(line, line_map)"
validate_line_unchecked(line, line_map) == Some(line)

validate_line(line, line_map) ==
    IF line \notin DOMAIN line_map
    THEN find_closest_line(line, line_map)
    ELSE Some(line)

\* One iteration of "for item in data" of _review_single_file and of
\* _suggest_logging_single_file (there body is log_statement); k is the
\* item's place in the array.  exc: the iteration raised (None.strip(), which
\* the logging loop also evaluates for reason and level before it skips).
ItemStepNeedsReason(acc, item, k, f, line_map, category) ==
    IF acc.exc THEN acc
    ELSE IF ~item.isdict THEN acc
    ELSE IF item.body = "null" THEN [exc |-> TRUE, comments |-> << >>]
    ELSE IF category = "LOGGING" /\ "null" \in {item.reason, item.level}
    THEN [exc |-> TRUE, comments |-> << >>]
    ELSE IF item.line = None \/ item.line = Some(0) \/ strip(item.body) = ""
            \/ (category = "LOGGING" /\ strip(item.reason) = "")
    THEN acc
    ELSE LET line == validate_line(item.line[1], line_map)
         IN IF line = None THEN acc
            ELSE [acc EXCEPT !.comments = Append(@, Comment(f, line[1], category, k))]

ItemStep(acc, item, k, f, line_map, category) ==
    IF acc.exc THEN acc
    ELSE IF ~item.isdict THEN acc
    ELSE IF item.body = "null" THEN [exc |-> TRUE, comments |-> << >>]
    ELSE IF category = "LOGGING" /\ "null" \in {item.reason, item.level}
    THEN [exc |-> TRUE, comments |-> << >>]
    ELSE IF item.line = None \/ item.line = Some(0) \/ strip(item.body) = "" THEN acc
    ELSE LET line == validate_line(item.line[1], line_map)
         IN IF line = None THEN acc
            ELSE [acc EXCEPT !.comments = Append(@, Comment(f, line[1], category, k))]

RECURSIVE ItemsState(_, _, _, _, _)
ItemsState(items, n, f, line_map, category) ==
    IF n = 0 THEN [exc |-> FALSE, comments |-> << >>]
    ELSE ItemStep(ItemsState(items, n - 1, f, line_map, category),
                  items[n], n, f, line_map, category)

\* ---- gateway responses of a per-file call
Resp(kind, items) == [kind |-> kind, items |-> items]
NoResp == Resp("none", << >>)
RaiseResp == Resp("raise", << >>)
NonListResp == Resp("nonlist", << >>)

\* _review_single_file / _suggest_logging_single_file after the gateway call:
\* [exc, comments] of the task
single_file_result(f, resp, category) ==
    IF resp.kind = "raise" THEN [exc |-> FALSE, comments |-> << >>]
    ELSE IF resp.kind # "list" THEN [exc |-> FALSE, comments |-> << >>]
    ELSE ItemsState(resp.items, Len(resp.items), f,
                    parse_patch_line_map(f.patch), category)

\* ---- tasks of a stage
Task(st, resp, exc, out) == [st |-> st, resp |-> resp, exc |-> exc, out |-> out]
PendingTask == Task("pending", NoResp, FALSE, << >>)

\* task i ends while a task created before it has not ended
Overtakes(tasks, i) == \E j \in DOMAIN tasks : j < i /\ tasks[j].st # "done"

NewTasks(fs) == [i \in DOMAIN TaskFiles(fs) |-> PendingTask]

\* a task ends with its result: the gather keeps it (return_exceptions=True)
\* and leaves the other tasks alone
task_done_cancels_siblings(tasks, i, resp, r) ==
    [j \in DOMAIN tasks |->
        IF j = i THEN Task("done", resp, r.exc, r.comments)
        ELSE IF resp.kind \in {"raise", "nonlist"} /\ tasks[j].st # "done"
        THEN Task("done", NoResp, TRUE, << >>)
        ELSE tasks[j]]

task_done(tasks, i, resp, r) ==
    [tasks EXCEPT ![i] = Task("done", resp, r.exc, r.comments)]

InFlight(tasks) == {i \in DOMAIN tasks : tasks[i].st = "inflight"}
Pending(tasks) == {i \in DOMAIN tasks : tasks[i].st = "pending"}

\* asyncio.Semaphore.acquire: a permit is free
can_acquire_always(s) == TRUE

can_acquire(s) == s > 0

\* leaving "async with sem", by a return or by an exception, gives the
\* permit back
release_unless_raised(s, resp, r) ==
    IF resp.kind = "raise" \/ r.exc THEN s ELSE s + 1

release(s, resp, r) == s + 1

\* await asyncio.gather(*tasks, return_exceptions=True) returns
gather_returns_on_first(tasks) ==
    tasks = << >> \/ \E i \in DOMAIN tasks : tasks[i].st = "done"

gather_returns(tasks) == \A i \in DOMAIN tasks : tasks[i].st = "done"

\* "for r in results: if isinstance(r, Exception): ... else: comments.extend(r)"
RECURSIVE fold_results_reversed(_, _)
fold_results_reversed(tasks, n) ==
    IF n = 0 THEN << >>
    ELSE (IF tasks[n].exc THEN << >> ELSE tasks[n].out) \o
         fold_results_reversed(tasks, n - 1)

RECURSIVE fold_results(_, _)
fold_results(tasks, n) ==
    IF n = 0 THEN << >>
    ELSE fold_results(tasks, n - 1) \o
         (IF tasks[n].exc THEN << >> ELSE tasks[n].out)

\* ---- summary
Purpose(src, changed_files, title) ==
    [src |-> src, changed_files |-> changed_files, title |-> title]

Summary(purpose, changes) == [purpose |-> purpose, changes |-> changes]

NoSummary == Summary(Purpose("none", 0, ""), << >>)
ModelSummary == Summary(Purpose("model", 0, "purpose"), <<"change">>)

\* PR-level additions and deletions passed to review()
PR_ADDITIONS == 30
PR_DELETIONS == 3

FallbackSummary(changed_files) ==
    Summary(Purpose("fallback", changed_files, TITLE),
            <<[additions |-> PR_ADDITIONS, deletions |-> PR_DELETIONS]>>)

\* _generate_summary after the gateway call.  resp is "raise", "nonobject",
\* "badobject" (PRSummary(**data) raises) or "object"; raised: the exception
\* leaves _generate_summary.
SummaryOutcome(raised, sm, usage) == [raised |-> raised, summary |-> sm, usage |-> usage]

generate_summary_unguarded(resp, changed_files) ==
    IF resp = "object" THEN SummaryOutcome(FALSE, ModelSummary, Usage(FALSE))
    ELSE IF resp = "badobject" THEN SummaryOutcome(TRUE, NoSummary, NoUsage)
    ELSE SummaryOutcome(FALSE, FallbackSummary(changed_files), NoUsage)

generate_summary(resp, changed_files) ==
    IF resp = "object" THEN SummaryOutcome(FALSE, ModelSummary, Usage(FALSE))
    ELSE SummaryOutcome(FALSE, FallbackSummary(changed_files), NoUsage)

\* ---- ReviewResult
Result(sm, cs, n, model) ==
    [summary |-> sm, comments |-> cs, files_reviewed |-> n, model_used |-> model]
NoResult == Result(NoSummary, << >>, 0, "")

\* ------------------------------------------------------------------------
\* The inputs of a run of review() and the answers of the gateway.  A run
\* is one of three scenarios, each bounding a different dimension:
\*   "items": one file, response arrays of up to MaxItems candidates of
\*            every shape in the last stage (the review stage when
\*            suggest_logging is off, else the logging stage);
\*   "files": up to MaxFiles files (a large file, a small one or one
\*            without a patch, then small ones), each call raising or answering a
\*            non-array, a one-candidate array, or an array that makes the
\*            loop raise;
\*   "many":  more files than permits (up to MaxTasks), each call of the
\*            last stage raising or answering [].
\* ------------------------------------------------------------------------
\* a large added file: the added line is new-file line 5
FileA == [additions |-> 16, deletions |-> 0, patch |-> <<Hdr(5), AddLine>>,
          language |-> "python"]
\* a small change: added lines 2 and 8
FileB == [additions |-> 2, deletions |-> 1,
          patch |-> <<Hdr(1), CtxLine, DelLine, AddLine, Hdr(8), AddLine>>,
          language |-> "java"]
\* only a deletion: no added line
FileD == [additions |-> 0, deletions |-> 1, patch |-> <<Hdr(1), CtxLine, DelLine>>,
          language |-> "python"]
\* at the threshold in both counts
FileE == [additions |-> LIGHTWEIGHT_THRESHOLD, deletions |-> LIGHTWEIGHT_THRESHOLD,
          patch |-> <<Hdr(1), AddLine>>, language |-> ""]
\* additions at the threshold, deletions above it
FileF == [additions |-> LIGHTWEIGHT_THRESHOLD, deletions |-> LIGHTWEIGHT_THRESHOLD + 1,
          patch |-> <<Hdr(1), DelLine, AddLine>>, language |-> "python"]
\* no patch
FileN == [additions |-> 0, deletions |-> 0, patch |-> << >>, language |-> ""]

WithFilenames(kinds) ==
    [i \in DOMAIN kinds |-> [filename |-> i, additions |-> kinds[i].additions,
                             deletions |-> kinds[i].deletions, patch |-> kinds[i].patch,
                             language |-> kinds[i].language]]

CandLines == {1, 2, 5, 8, 9}

ItemShapes ==
    {Item(FALSE, None, "missing"),
     Item(TRUE, None, "text"), Item(TRUE, Some(0), "text"),
     Item(TRUE, Some(5), "blank"), Item(TRUE, Some(5), "missing"),
     Item(TRUE, Some(5), "null")}
    \cup {Item(TRUE, Some(n), "text") : n \in CandLines}

ItemLists == UNION {[1..n -> ItemShapes] : n \in 0..MaxItems}

RichMenu == {RaiseResp, NonListResp} \cup {Resp("list", l) : l \in ItemLists}

FilesMenu ==
    {RaiseResp, NonListResp,
     Resp("list", <<Item(TRUE, Some(5), "text")>>),
     Resp("list", <<Item(TRUE, Some(5), "null")>>)}

ManyMenu == {RaiseResp, Resp("list", << >>)}

SummaryMenu(sc) ==
    IF sc = "items" THEN {"raise", "nonobject", "badobject", "object"}
    ELSE IF sc = "files" THEN {"raise", "object"}
    ELSE {"object"}

EmptyOnly == {Resp("list", << >>)}

ReviewMenu(sc) ==
    IF sc = "items" THEN (IF suggest_logging THEN EmptyOnly ELSE RichMenu)
    ELSE IF sc = "files" THEN FilesMenu
    ELSE (IF suggest_logging THEN EmptyOnly ELSE ManyMenu)

LoggingMenu(sc) ==
    IF sc = "items" THEN RichMenu
    ELSE IF sc = "files" THEN FilesMenu
    ELSE ManyMenu

EngineInit ==
    /\ pc = "start"
    /\ scenario \in {"items", "files", "many"}
    /\ suggest_logging \in BOOLEAN
    /\ skipped_files \in (IF scenario = "items" THEN 0..1 ELSE {0})
    /\ files \in
         IF scenario = "items"
         THEN {WithFilenames(<<k>>) : k \in {FileA, FileB, FileD, FileE, FileF}}
         ELSE IF scenario = "files"
         THEN {WithFilenames(<< >>)} \cup
              {WithFilenames(<<k>> \o [i \in 1..m |-> FileB]) :
                 k \in {FileA, FileB, FileN}, m \in 0..(MaxFiles - 1)}
         ELSE {WithFilenames([i \in 1..n |-> FileB]) :
                 n \in (MAX_CONCURRENT_REVIEWS + 1)..MaxTasks}
    /\ summary = NoSummary /\ summaryResp = "none"
    /\ rtask = << >> /\ ltask = << >> /\ sem = 0
    /\ total_usage = NoUsage
    /\ comments = << >>
    /\ result = NoResult
    /\ overtaken = {}
    /\ calls = EmptyMap

\* ------------------------------------------------------------------------
\* ReviewEngine.review as a state machine.  pc is the place of review():
\* "start", "summary" (awaiting the summary call), "review" (awaiting the
\* gather of _review_files), "logging" (awaiting the gather of
\* _suggest_logging_for_files), "done" (the ReviewResult is returned),
\* "failed" (an exception left review()).
\* ------------------------------------------------------------------------
\* review() up to the await of the summary gateway call
SummaryCall ==
    /\ UNCHANGED overtaken
    /\ pc = "start"
    /\ pc' = "summary"
    /\ calls' = AddCall(calls, Call("summary", 0, FALSE))
    /\ UNCHANGED <<files, skipped_files, suggest_logging, scenario, summary,
                   summaryResp, rtask, ltask, sem, total_usage, comments, result>>

\* the summary call returns or raises; _generate_summary ends; _review_files
\* creates its semaphore and its tasks and awaits the gather
SummaryReturn ==
    /\ UNCHANGED calls
    /\ UNCHANGED overtaken
    /\ pc = "summary"
    /\ \E resp \in SummaryMenu(scenario) :
          LET o == generate_summary(resp, Len(files) + skipped_files)
          IN /\ summaryResp' = resp
             /\ IF o.raised
                THEN /\ pc' = "failed"
                     /\ UNCHANGED <<summary, total_usage, rtask, sem>>
                ELSE /\ summary' = o.summary
                     /\ total_usage' = merge_usage(total_usage, o.usage)
                     /\ rtask' = NewTasks(files)
                     /\ sem' = MAX_CONCURRENT_REVIEWS
                     /\ pc' = "review"
    /\ UNCHANGED <<files, skipped_files, suggest_logging, scenario, ltask,
                   comments, result>>

\* a task of _review_files enters "async with sem" and sends its gateway
\* call; tasks are admitted in the order they were created
ReviewAdmit ==
    /\ UNCHANGED overtaken
    /\ pc = "review"
    /\ Pending(rtask) # {}
    /\ can_acquire(sem)
    /\ LET i == CHOOSE j \in Pending(rtask) : \A k \in Pending(rtask) : j <= k
           f == TaskFiles(files)[i]
       IN /\ rtask' = [rtask EXCEPT ![i].st = "inflight"]
          /\ calls' = AddCall(calls, Call("review", f.filename, use_lightweight(f)))
    /\ sem' = sem - 1
    /\ UNCHANGED <<pc, files, skipped_files, suggest_logging, scenario, summary,
                   summaryResp, ltask, total_usage, comments, result>>

\* the gateway call of a review task returns or raises; the task runs to its
\* end and leaves "async with sem"
ReviewReturn ==
    /\ UNCHANGED calls
    /\ pc = "review"
    /\ \E i \in InFlight(rtask) :
          \E resp \in ReviewMenu(scenario) :
              LET f == TaskFiles(files)[i]
                  r == single_file_result(f, resp, "BEST_PRACTICE")
              IN /\ rtask' = task_done(rtask, i, resp, r)
                 /\ overtaken' = IF Overtakes(rtask, i)
                                 THEN overtaken \cup {"review"} ELSE overtaken
                 /\ total_usage' =
                       IF resp.kind = "raise" THEN total_usage
                       ELSE merge_usage(total_usage, Usage(use_lightweight(f)))
                 /\ sem' = release(sem, resp, r)
    /\ UNCHANGED <<pc, files, skipped_files, suggest_logging, scenario, summary,
                   summaryResp, ltask, comments, result>>

\* the gather of _review_files returns; review() goes on to the logging
\* stage, or builds the ReviewResult
ReviewGathered ==
    /\ UNCHANGED calls
    /\ UNCHANGED overtaken
    /\ pc = "review"
    /\ gather_returns(rtask)
    /\ LET cs == fold_results(rtask, Len(rtask))
       IN /\ comments' = cs
          /\ IF suggest_logging
             THEN /\ ltask' = NewTasks(files)
                  /\ sem' = MAX_CONCURRENT_REVIEWS
                  /\ pc' = "logging"
                  /\ UNCHANGED result
             ELSE /\ result' = Result(summary, cs, Len(files), total_usage.model)
                  /\ pc' = "done"
                  /\ UNCHANGED <<ltask, sem>>
    /\ UNCHANGED <<files, skipped_files, suggest_logging, scenario, summary,
                   summaryResp, rtask, total_usage>>

LoggingAdmit ==
    /\ UNCHANGED overtaken
    /\ pc = "logging"
    /\ Pending(ltask) # {}
    /\ can_acquire(sem)
    /\ LET i == CHOOSE j \in Pending(ltask) : \A k \in Pending(ltask) : j <= k
           f == TaskFiles(files)[i]
       IN /\ ltask' = [ltask EXCEPT ![i].st = "inflight"]
          /\ calls' = AddCall(calls, Call("logging", f.filename, TRUE))
    /\ sem' = sem - 1
    /\ UNCHANGED <<pc, files, skipped_files, suggest_logging, scenario, summary,
                   summaryResp, rtask, total_usage, comments, result>>

LoggingReturn ==
    /\ UNCHANGED calls
    /\ pc = "logging"
    /\ \E i \in InFlight(ltask) :
          \E resp \in LoggingMenu(scenario) :
              LET f == TaskFiles(files)[i]
                  r == single_file_result(f, resp, "LOGGING")
              IN /\ ltask' = task_done(ltask, i, resp, r)
                 /\ overtaken' = IF Overtakes(ltask, i)
                                 THEN overtaken \cup {"logging"} ELSE overtaken
                 /\ total_usage' =
                       IF resp.kind = "raise" THEN total_usage
                       ELSE merge_usage(total_usage, Usage(TRUE))
                 /\ sem' = release(sem, resp, r)
    /\ UNCHANGED <<pc, files, skipped_files, suggest_logging, scenario, summary,
                   summaryResp, rtask, comments, result>>

LoggingGathered ==
    /\ UNCHANGED calls
    /\ UNCHANGED overtaken
    /\ pc = "logging"
    /\ gather_returns(ltask)
    /\ LET cs == comments \o fold_results(ltask, Len(ltask))
       IN /\ comments' = cs
          /\ result' = Result(summary, cs, Len(files), total_usage.model)
    /\ pc' = "done"
    /\ UNCHANGED <<files, skipped_files, suggest_logging, scenario, summary,
                   summaryResp, rtask, ltask, sem, total_usage>>

\* ------------------------------------------------------------------------
\* GitHubClient.cleanup_previous_reviews (agent/github_client.py).  The
\* server keeps the issue comments and the inline review comments of the
\* pull request as two listings; GET with per_page and page answers the
\* page-th slice of the listing as it is at the time of the request, DELETE
\* removes a comment from it.  A comment is [id, ours]: ours is "the body
\* holds MARKER" for an issue comment and "the author is the bot" for an
\* inline comment.
\* ------------------------------------------------------------------------
\* params={"per_page": 100, "page": page}
PER_PAGE == 100

Min(a, b) == IF a < b THEN a ELSE b

\* the answer to GET ...?per_page=100&page=p
PageOf(listing, p) ==
    SubSeq(listing, (p - 1) * PER_PAGE + 1, Min(p * PER_PAGE, Len(listing)))

\* the listing after DELETE of the comment with this id
Without(listing, id) == SelectSeq(listing, LAMBDA c : c.id # id)

\* a listing of n comments, the first plain ones of other authors
Listing(n, plain) == [i \in 1..n |-> [id |-> i, ours |-> i > plain]]

ListingSizes == (0..MaxOver) \cup (PER_PAGE..(PER_PAGE + MaxOver))

CleanupInit ==
    /\ kpc = "issue_get"
    /\ kIssue \in {Listing(n, h) : n \in ListingSizes, h \in 0..MaxPlain}
    /\ kReview \in {Listing(n, h) : n \in ListingSizes, h \in 0..MaxPlain}
    /\ kPage = 1
    /\ kBatch = << >>
    \* the id of an issue comment whose DELETE is refused (0: none)
    /\ kDenied \in 0..1
    /\ kAllOk = TRUE
    /\ kDeleted = 0

\* "resp = await self._http.get(...issues/.../comments...)": the page is
\* empty (go on to the inline comments) or becomes the batch to walk
IssueGet ==
    /\ kpc = "issue_get"
    /\ LET batch == PageOf(kIssue, kPage)
       IN IF batch = << >>
          THEN /\ kpc' = "review_get" /\ kPage' = 1 /\ kBatch' = << >>
          ELSE /\ kpc' = "issue_del" /\ kBatch' = batch /\ UNCHANGED kPage
    /\ UNCHANGED <<kIssue, kReview, kDenied, kAllOk, kDeleted>>

\* one iteration of "for comment in batch" over the issue comments; after
\* the last one, "page += 1"
IssueDelete ==
    /\ kpc = "issue_del"
    /\ kBatch # << >>
    /\ LET c == Head(kBatch)
       IN IF c.ours
          THEN IF c.id # kDenied
               THEN /\ kIssue' = Without(kIssue, c.id)
                    /\ kDeleted' = kDeleted + 1
                    /\ UNCHANGED kAllOk
               ELSE /\ kAllOk' = FALSE
                    /\ UNCHANGED <<kIssue, kDeleted>>
          ELSE UNCHANGED <<kIssue, kDeleted, kAllOk>>
    /\ kBatch' = Tail(kBatch)
    /\ IF Tail(kBatch) = << >>
       THEN kpc' = "issue_get" /\ kPage' = kPage + 1
       ELSE UNCHANGED <<kpc, kPage>>
    /\ UNCHANGED <<kReview, kDenied>>

\* "resp = await self._http.get(...pulls/.../comments...)"
ReviewCommentsGet ==
    /\ kpc = "review_get"
    /\ LET batch == PageOf(kReview, kPage)
       IN IF batch = << >>
          THEN /\ kpc' = "done" /\ kBatch' = << >> /\ UNCHANGED kPage
          ELSE /\ kpc' = "review_del" /\ kBatch' = batch /\ UNCHANGED kPage
    /\ UNCHANGED <<kIssue, kReview, kDenied, kAllOk, kDeleted>>

\* one iteration of "for comment in batch" over the inline comments
ReviewCommentDelete ==
    /\ kpc = "review_del"
    /\ kBatch # << >>
    /\ LET c == Head(kBatch)
       IN IF c.ours
          THEN /\ kReview' = Without(kReview, c.id)
               /\ kDeleted' = kDeleted + 1
          ELSE UNCHANGED <<kReview, kDeleted>>
    /\ kBatch' = Tail(kBatch)
    /\ IF Tail(kBatch) = << >>
       THEN kpc' = "review_get" /\ kPage' = kPage + 1
       ELSE UNCHANGED <<kpc, kPage>>
    /\ UNCHANGED <<kIssue, kDenied, kAllOk>>

\* resp.raise_for_status() raises: the exception leaves the method
ListingFails ==
    /\ kpc \in {"issue_get", "review_get"}
    /\ kpc' = "failed"
    /\ UNCHANGED <<kIssue, kReview, kPage, kBatch, kDenied, kAllOk, kDeleted>>

\* ------------------------------------------------------------------------
\* format_summary_body (agent/reviewer.py): the stats line.  A comment is its
\* category; the line is the list of the parts joined by " | ".
\* ------------------------------------------------------------------------
Categories == {"BUG_RISK", "BEST_PRACTICE", "LOGGING"}

RECURSIVE CountIf(_, _)
CountIf(q, cats) ==
    IF q = << >> THEN 0
    ELSE (IF Head(q) \in cats THEN 1 ELSE 0) + CountIf(Tail(q), cats)

review_count_all(cs) == Len(cs)

\* sum(1 for c in result.comments if c.category != ReviewCategory.LOGGING)
review_count(cs) == CountIf(cs, Categories \ {"LOGGING"})

\* sum(1 for c in result.comments if c.category == ReviewCategory.LOGGING)
logging_count(cs) == CountIf(cs, {"LOGGING"})

StatsPart(kind, n) == [kind |-> kind, n |-> n]

stats_parts(cs, files_reviewed) ==
    <<StatsPart("file(s) reviewed", files_reviewed),
      StatsPart("review comment(s)", review_count(cs))>>
    \o (IF logging_count(cs) # 0
        THEN <<StatsPart("logging suggestion(s)", logging_count(cs))>>
        ELSE << >>)
    \o <<StatsPart("s", 0)>>

FormatInit ==
    /\ gpc = "input"
    /\ gComments \in UNION {[1..n -> Categories] : n \in 0..MaxComments}
    /\ gStats = << >>

FormatSummary ==
    /\ gpc = "input"
    /\ gStats' = stats_parts(gComments, 1)
    /\ gpc' = "done"
    /\ UNCHANGED gComments

\* ------------------------------------------------------------------------
\* AIClient._extract_json (agent/ai_client.py).  A text is its lines (what
\* split("\n") gives); a line is [lead, tok]: whether it starts with
\* whitespace, and the rest: "" (nothing but whitespace), a fence with or
\* without the json tag, or a piece of JSON-like text.  json.loads ignores the
\* whitespace between tokens; it returns the value of a JSON document and
\* raises JSONDecodeError on anything else.
\* ------------------------------------------------------------------------
Line(lead, tok) == [lead |-> lead, tok |-> tok]
BlankLine == Line(FALSE, "")
\* a line of three backquotes, and one of three backquotes followed by json
Fence == "fence"
FenceJson == "fence json"

IsBlank(l) == l.tok = ""

\* the documents of the JSON grammar over the tokens "[", "1", "]"
ValidDocs == {<<"1">>, <<"[", "]">>, <<"[", "1", "]">>}

Tokens(lines) == [i \in DOMAIN SelectSeq(lines, LAMBDA l : ~IsBlank(l)) |->
                    SelectSeq(lines, LAMBDA l : ~IsBlank(l))[i].tok]

Parsed(ok, value) == [ok |-> ok, value |-> value]
NoParse == Parsed(FALSE, <<"none">>)
\* json.JSONDecodeError
DecodeError == Parsed(FALSE, <<"JSONDecodeError">>)

json_loads(lines) ==
    IF Tokens(lines) \in ValidDocs THEN Parsed(TRUE, Tokens(lines)) ELSE DecodeError

\* str.strip() of a text: the whitespace-only lines at both ends go, and the
\* whitespace before the first character
RECURSIVE DropLeadingBlank(_)
DropLeadingBlank(lines) ==
    IF lines = << >> THEN << >>
    ELSE IF IsBlank(Head(lines)) THEN DropLeadingBlank(Tail(lines))
    ELSE lines

RECURSIVE DropTrailingBlank(_)
DropTrailingBlank(lines) ==
    IF lines = << >> THEN << >>
    ELSE IF IsBlank(lines[Len(lines)])
    THEN DropTrailingBlank(SubSeq(lines, 1, Len(lines) - 1))
    ELSE lines

strip_text(lines) ==
    LET core == DropTrailingBlank(DropLeadingBlank(lines))
    IN IF core = << >> THEN << >>
       ELSE [core EXCEPT ![1] = Line(FALSE, core[1].tok)]

\* cleaned.startswith(three backquotes)
starts_with_fence(lines) ==
    lines # << >> /\ lines[1].tok \in {Fence, FenceJson}

\* lines[i].strip() is three backquotes
is_closing_fence(l) == l.tok = Fence

\* "for i in range(len(lines) - 1, 0, -1)": the index after the content
\* (lines are numbered from 1 here, so the scan runs from Len down to 2)
fence_end(lines) ==
    LET hits == {i \in 2..Len(lines) : is_closing_fence(lines[i])}
    IN IF hits = {} THEN Len(lines) + 1
       ELSE CHOOSE i \in hits : \A j \in hits : j <= i

extract_json_unfenced(text) == json_loads(strip_text(text))

extract_json(text) ==
    LET cleaned == strip_text(text)
    IN IF starts_with_fence(cleaned)
       THEN json_loads(strip_text(SubSeq(cleaned, 2, fence_end(cleaned) - 1)))
       ELSE json_loads(cleaned)

\* a text wrapped in a fenced code block: the tag of the opening fence,
\* whitespace around the block, whitespace before the closing fence
Style(tag, pad, indent) == [tag |-> tag, pad |-> pad, indent |-> indent]
NoStyle == Style("", FALSE, FALSE)

Wrap(text, style) ==
    (IF style.pad THEN <<BlankLine>> ELSE << >>)
    \o <<Line(style.pad, style.tag)>> \o text \o <<Line(style.indent, Fence)>>
    \o (IF style.pad THEN <<BlankLine>> ELSE << >>)

JsonLines == {Line(lead, tok) : lead \in BOOLEAN, tok \in {"[", "1", "]", "x"}}
               \cup {BlankLine}

JsonInit ==
    /\ jpc = "input"
    /\ jText \in UNION {[1..n -> JsonLines] : n \in 0..MaxLines}
    /\ jStyle \in {Style(tag, pad, indent) :
                      tag \in {Fence, FenceJson}, pad \in BOOLEAN, indent \in BOOLEAN}
    /\ jPlain = NoParse
    /\ jFenced = NoParse

\* _extract_json on the text alone and on the text in a fenced block
ExtractJson ==
    /\ jpc = "input"
    /\ jPlain' = extract_json(jText)
    /\ jFenced' = extract_json(Wrap(jText, jStyle))
    /\ jpc' = "done"
    /\ UNCHANGED <<jText, jStyle>>

\* ------------------------------------------------------------------------
\* _safe_enum and its two calls in _review_single_file (agent/reviewer.py).
\* A value of a candidate's key is a JSON value: a string, null, a number,
\* or the key is absent.
\* ------------------------------------------------------------------------
JsonValue(kind, text) == [kind |-> kind, text |-> text]
Str(text) == JsonValue("str", text)
Null == JsonValue("null", "")
Number == JsonValue("number", "")
Absent == JsonValue("absent", "")

\* the values of the members of ReviewSeverity and of ReviewCategory
ReviewSeverity == {"critical", "warning", "suggestion", "nitpick"}
ReviewCategory == {"security", "bug_risk", "best_practice", "logging"}

\* str.lower()
lower(text) ==
    CASE text = "CRITICAL" -> "critical"
      [] text = "Warning" -> "warning"
      [] text = "BUG_RISK" -> "bug_risk"
      [] text = "Security" -> "security"
      [] OTHER -> text

\* item.get(key, "")
item_get(value) == IF value.kind = "absent" THEN Str("") ELSE value

\* the outcome of a conversion: a member, or the exception that leaves it
Converted(exc, member) == [exc |-> exc, member |-> member]

\* "try: return cls(value.lower()) except (ValueError, KeyError): return
\* default": cls(v) raises ValueError for a v that is no member's value;
\* a value without a lower() raises AttributeError before cls is called
safe_enum(value, cls, default) ==
    IF value.kind # "str" THEN Converted("AttributeError", "")
    ELSE IF lower(value.text) \in cls THEN Converted("", lower(value.text))
    ELSE Converted("", default)

\* what the loop iteration leaves: a finding, or the exception
Finding(exc, severity, category) ==
    [exc |-> exc, severity |-> severity, category |-> category]
NoFinding == Finding("none", "", "")

SeverityValues ==
    {Absent, Null, Number} \cup
    {Str(t) : t \in {"critical", "CRITICAL", "Warning", "unknown", ""}}

CategoryValues ==
    {Absent, Null, Number} \cup
    {Str(t) : t \in {"security", "BUG_RISK", "Security", "unknown", ""}}

EnumInit ==
    /\ epc = "candidate"
    /\ eSeverity \in SeverityValues
    /\ eCategory \in CategoryValues
    /\ eOut = NoFinding

\* severity = _safe_enum(...); category = _safe_enum(...); comments.append
BuildFinding ==
    /\ epc = "candidate"
    /\ LET severity == safe_enum(item_get(eSeverity), ReviewSeverity, "suggestion")
           category == safe_enum(item_get(eCategory), ReviewCategory, "best_practice")
       IN eOut' = IF severity.exc # "" THEN Finding(severity.exc, "", "")
                  ELSE IF category.exc # "" THEN Finding(category.exc, "", "")
                  ELSE Finding("", severity.member, category.member)
    /\ epc' = "done"
    /\ UNCHANGED <<eSeverity, eCategory>>

\* ------------------------------------------------------------------------
\* One iteration of the candidate loop of _review_single_file and of
\* _suggest_logging_single_file on a file with two hunks (SpecCandidate).
\* A key's value: "missing" (no such key), "null", "blank" (whitespace
\* only or empty), "text".
\* ------------------------------------------------------------------------
KeyValues == {"missing", "null", "blank", "text"}

CandInit ==
    /\ qpc = "candidate"
    /\ qCategory \in {"BEST_PRACTICE", "LOGGING"}
    /\ qItem \in {LogItem(TRUE, line, body, reason, level) :
                     line \in {None, Some(0)} \cup {Some(n) : n \in CandLines},
                     body \in KeyValues, reason \in KeyValues, level \in KeyValues}
    /\ qOut = [exc |-> FALSE, comments |-> << >>]

LoopIteration ==
    /\ qpc = "candidate"
    /\ qOut' = ItemStep([exc |-> FALSE, comments |-> << >>], qItem, 1,
                        WithFilenames(<<FileB>>)[1],
                        parse_patch_line_map(FileB.patch), qCategory)
    /\ qpc' = "done"
    /\ UNCHANGED <<qCategory, qItem>>

\* ------------------------------------------------------------------------
\* GitHubClient.get_pr_files (agent/github_client.py).  A file of a page
\* is [binary, ignored, patch]: is_binary(filename), should_skip_file(
\* filename, ignore_patterns), and whether f.get("patch", "") is non-empty.
\* The filename of a fetched file is its place among the fetched files.
\* ------------------------------------------------------------------------
PageFile(binary, ignored, patch) ==
    [binary |-> binary, ignored |-> ignored, patch |-> patch]

Reviewable == PageFile(FALSE, FALSE, TRUE)

\* the chain of tests of "for f in batch": "" when the file is appended to
\* files
skip_reason_no_diff_first(f) ==
    IF ~f.patch THEN "no diff"
    ELSE IF f.binary THEN "binary"
    ELSE IF f.ignored THEN "ignored"
    ELSE ""

skip_reason(f) ==
    IF f.binary THEN "binary"
    ELSE IF f.ignored THEN "ignored"
    ELSE IF ~f.patch THEN "no diff"
    ELSE ""

Named(batch, first) ==
    [i \in DOMAIN batch |->
        [filename |-> first + i, binary |-> batch[i].binary,
         ignored |-> batch[i].ignored, patch |-> batch[i].patch]]

Skipped(f, reason) == [filename |-> f.filename, reason |-> reason]

\* "for f in batch" on the named files of a page
RECURSIVE BatchState(_, _, _)
BatchState(batch, n, st) ==
    IF n = 0 THEN st
    ELSE LET before == BatchState(batch, n - 1, st)
             f == batch[n]
         IN IF skip_reason(f) # ""
            THEN [before EXCEPT !.skipped = Append(@, Skipped(f, skip_reason(f)))]
            ELSE [before EXCEPT !.files = Append(@, f)]

\* "if len(files) > max_files": the files after the max_files-th are skipped
over_limit(st, max_files) ==
    IF Len(st.files) > max_files
    THEN [files |-> SubSeq(st.files, 1, max_files),
          skipped |-> st.skipped \o
              [i \in 1..(Len(st.files) - max_files) |->
                  Skipped(st.files[max_files + i], "over limit")]]
    ELSE st

\* the pages a server answers: empty, or a file of any kind followed by
\* reviewable files
PageKinds ==
    {Reviewable, PageFile(TRUE, FALSE, TRUE), PageFile(FALSE, TRUE, TRUE),
     PageFile(FALSE, FALSE, FALSE), PageFile(FALSE, TRUE, FALSE),
     PageFile(TRUE, TRUE, FALSE)}

Pages ==
    {<< >>} \cup {<<k>> \o [i \in 1..m |-> Reviewable] :
                     k \in PageKinds, m \in 0..(MaxBatch - 1)}

FetchInit ==
    /\ hpc = "fetching"
    /\ hMaxFiles \in 0..MaxLimit
    /\ hFiles = << >> /\ hSkipped = << >>
    /\ hPage = 1
    /\ hFetched = << >>
    /\ hLast = 0

\* one turn of "while True": the GET of page hPage answers a batch, the
\* batch is sorted into files and skipped, and the loop goes on or breaks
\* and get_pr_files returns
FetchPage ==
    /\ hpc = "fetching"
    /\ \E page \in Pages :
          LET batch == Named(page, Len(hFetched))
              st == BatchState(batch, Len(batch),
                               [files |-> hFiles, skipped |-> hSkipped])
              stop == batch = << >> \/
                      Len(st.files) + Len(st.skipped) >= hMaxFiles * 3
              out == IF stop THEN over_limit(st, hMaxFiles) ELSE st
          IN /\ hFetched' = hFetched \o batch
             /\ hLast' = Len(batch)
             /\ hFiles' = out.files
             /\ hSkipped' = out.skipped
             /\ hPage' = IF batch = << >> THEN hPage ELSE hPage + 1
             /\ hpc' = IF stop THEN "returned" ELSE "fetching"
    /\ UNCHANGED hMaxFiles

\* resp.raise_for_status() raises: the exception leaves get_pr_files
FetchFails ==
    /\ hpc = "fetching"
    /\ hpc' = "raised"
    /\ UNCHANGED <<hMaxFiles, hFiles, hSkipped, hPage, hFetched, hLast>>

\* ------------------------------------------------------------------------
\* GitHubClient.post_review (agent/github_client.py).  oSent is the list of
\* the POST requests sent, oCreated what the server created from them,
\* oAnswer the answer to the review request: "error" (an HTTP error
\* status), "noid" (a JSON object without "id"), or "id".
\* ------------------------------------------------------------------------
Request(kind, marked, cs) ==
    [kind |-> kind, marked |-> marked, comments |-> cs]

\* POST /issues/{pr}/comments with MARKER + body
SummaryRequest == Request("summary", TRUE, << >>)

\* POST /pulls/{pr}/reviews with one entry per comment
ReviewRequest(cs) == Request("review", FALSE, cs)

\* "if comments:"
review_always(cs) == TRUE

review_needed(cs) == cs # << >>

InlineComments ==
    UNION {[1..n -> {[path |-> p, line |-> l] : p \in 1..2, l \in 1..2}] :
             n \in 0..MaxInline}

PostInit ==
    /\ opc = "start"
    /\ oComments \in InlineComments
    /\ oSent = << >>
    /\ oCreated = {}
    /\ oAnswer = "none"
    /\ oReturn = None

\* post_review up to the await of the summary POST
PostSummary ==
    /\ opc = "start"
    /\ oSent' = Append(oSent, SummaryRequest)
    /\ opc' = "summary"
    /\ UNCHANGED <<oComments, oCreated, oAnswer, oReturn>>

\* the summary POST is answered with an error: raise_for_status raises
SummaryRejected ==
    /\ opc = "summary"
    /\ opc' = "raised"
    /\ UNCHANGED <<oComments, oSent, oCreated, oAnswer, oReturn>>

\* the summary POST is answered: post_review returns 0 when there are no
\* comments, else sends the review POST
SummaryPosted ==
    /\ opc = "summary"
    /\ oCreated' = oCreated \cup {"summary"}
    /\ IF review_needed(oComments)
       THEN /\ oSent' = Append(oSent, ReviewRequest(oComments))
            /\ opc' = "review"
            /\ UNCHANGED oReturn
       ELSE /\ oReturn' = Some(0)
            /\ opc' = "returned"
            /\ UNCHANGED oSent
    /\ UNCHANGED <<oComments, oAnswer>>

\* the review POST is answered with an error: raise_for_status raises
ReviewRejected ==
    /\ opc = "review"
    /\ oAnswer' = "error"
    /\ opc' = "raised"
    /\ UNCHANGED <<oComments, oSent, oCreated, oReturn>>

\* the review POST is answered: review_id = resp.json().get("id", 0)
ReviewPosted ==
    /\ opc = "review"
    /\ oCreated' = oCreated \cup {"review"}
    /\ \/ /\ oAnswer' = "noid"
          /\ oReturn' = Some(0)
       \/ /\ oAnswer' = "id"
          /\ \E id \in 1..MaxId : oReturn' = Some(id)
    /\ opc' = "returned"
    /\ UNCHANGED <<oComments, oSent>>

\* ------------------------------------------------------------------------
\* run() and _run_review (agent/main.py).  mpc is the await that run() is
\* at: "get_pr", "get_files", "review" (engine.review before its first
\* gateway call), "gateway" (engine.review after it), "post", or the end:
\* "done" (run() returned), "raised" (an exception left run()).  mTrace
\* lists what has happened: "gateway" (a gateway call was made),
\* "reviewed" (engine.review returned), "post" (post_review was called),
\* "closed" (gh.close() ran).
\* ------------------------------------------------------------------------
\* "if skip_drafts and is_draft: return" and "if author in IGNORE_AUTHORS
\* or pr["user"].get("type") == "Bot": return"
gatekeeper_drafts_only(skip_drafts, is_draft, ignored, bot) ==
    skip_drafts /\ is_draft

gatekeeper(skip_drafts, is_draft, ignored, bot) ==
    (skip_drafts /\ is_draft) \/ ignored \/ bot

\* "finally: await gh.close()" of run()
closed(trace) == Append(trace, "closed")

MainInit ==
    /\ mpc = "start"
    /\ mSkipDrafts \in BOOLEAN
    /\ mDraft \in BOOLEAN
    /\ mIgnored \in BOOLEAN
    /\ mBot \in BOOLEAN
    /\ mFiles = None
    /\ mTrace = << >>

\* run() creates the client and _run_review awaits gh.get_pr
RunStarts ==
    /\ mpc = "start"
    /\ mpc' = "get_pr"
    /\ UNCHANGED <<mSkipDrafts, mDraft, mIgnored, mBot, mFiles, mTrace>>

\* get_pr returns: the gatekeeper returns, or get_pr_files is awaited
GetPrReturns ==
    /\ mpc = "get_pr"
    /\ IF gatekeeper(mSkipDrafts, mDraft, mIgnored, mBot)
       THEN mpc' = "done" /\ mTrace' = closed(mTrace)
       ELSE mpc' = "get_files" /\ UNCHANGED mTrace
    /\ UNCHANGED <<mSkipDrafts, mDraft, mIgnored, mBot, mFiles>>

\* get_pr_files returns n reviewable files: "if not files: return", or
\* engine.review is awaited
GetFilesReturns ==
    /\ mpc = "get_files"
    /\ \E n \in 0..MaxReviewable :
          /\ mFiles' = Some(n)
          /\ IF n = 0
             THEN mpc' = "done" /\ mTrace' = closed(mTrace)
             ELSE mpc' = "review" /\ UNCHANGED mTrace
    /\ UNCHANGED <<mSkipDrafts, mDraft, mIgnored, mBot>>

\* engine.review sends its first gateway call (the summary call)
ReviewCallsGateway ==
    /\ mpc = "review"
    /\ mTrace' = Append(mTrace, "gateway")
    /\ mpc' = "gateway"
    /\ UNCHANGED <<mSkipDrafts, mDraft, mIgnored, mBot, mFiles>>

\* engine.review returns: format_summary_body, then post_review is awaited
ReviewReturns ==
    /\ mpc = "gateway"
    /\ mTrace' = mTrace \o <<"reviewed", "post">>
    /\ mpc' = "post"
    /\ UNCHANGED <<mSkipDrafts, mDraft, mIgnored, mBot, mFiles>>

\* post_review returns; _run_review returns
PostReturns ==
    /\ mpc = "post"
    /\ mTrace' = closed(mTrace)
    /\ mpc' = "done"
    /\ UNCHANGED <<mSkipDrafts, mDraft, mIgnored, mBot, mFiles>>

\* the awaited call raises: the exception leaves _run_review through the
\* finally of run()
AwaitRaises ==
    /\ mpc \in {"get_pr", "get_files", "review", "gateway", "post"}
    /\ mTrace' = closed(mTrace)
    /\ mpc' = "raised"
    /\ UNCHANGED <<mSkipDrafts, mDraft, mIgnored, mBot, mFiles>>

\* ------------------------------------------------------------------------
\* Idle values: a specification that exercises one part keeps the variables
\* of the other parts at these values.
\* ------------------------------------------------------------------------
FindIdle ==
    /\ fpc = "idle" /\ fTarget = 0 /\ fKeys = {} /\ fResult = None

PatchIdle ==
    /\ ppc = "idle" /\ pPatch = << >> /\ pMap = EmptyMap /\ pAssigned = << >>
    /\ pLine = 0 /\ pContent = None

CompressIdle ==
    /\ cpc = "idle" /\ cFiles = << >> /\ cMaxTokens = 0 /\ cRemovedTok = 0
    /\ cOut = << >>

EngineIdle ==
    /\ pc = "idle" /\ files = << >> /\ skipped_files = 0
    /\ suggest_logging = FALSE /\ scenario = "idle"
    /\ summary = NoSummary /\ summaryResp = "none"
    /\ rtask = << >> /\ ltask = << >> /\ sem = 0
    /\ total_usage = NoUsage
    /\ comments = << >>
    /\ result = NoResult
    /\ overtaken = {}
    /\ calls = EmptyMap

CleanupIdle ==
    /\ kpc = "idle" /\ kIssue = << >> /\ kReview = << >> /\ kPage = 0
    /\ kBatch = << >> /\ kDenied = 0 /\ kAllOk = TRUE /\ kDeleted = 0

FormatIdle ==
    /\ gpc = "idle" /\ gComments = << >> /\ gStats = << >>

JsonIdle ==
    /\ jpc = "idle" /\ jText = << >> /\ jStyle = NoStyle
    /\ jPlain = NoParse /\ jFenced = NoParse

EnumIdle ==
    /\ epc = "idle" /\ eSeverity = Absent /\ eCategory = Absent
    /\ eOut = NoFinding

CandIdle ==
    /\ qpc = "idle" /\ qCategory = "none"
    /\ qItem = Item(FALSE, None, "missing")
    /\ qOut = [exc |-> FALSE, comments |-> << >>]

FetchIdle ==
    /\ hpc = "idle" /\ hMaxFiles = 0 /\ hFiles = << >> /\ hSkipped = << >>
    /\ hPage = 0 /\ hFetched = << >> /\ hLast = 0

PostIdle ==
    /\ opc = "idle" /\ oComments = << >> /\ oSent = << >> /\ oCreated = {}
    /\ oAnswer = "none" /\ oReturn = None

MainIdle ==
    /\ mpc = "idle" /\ mSkipDrafts = FALSE /\ mDraft = FALSE /\ mIgnored = FALSE
    /\ mBot = FALSE /\ mFiles = None /\ mTrace = << >>

AuxIdle == JsonIdle /\ EnumIdle /\ CandIdle /\ FetchIdle /\ PostIdle /\ MainIdle

BaseIdle ==
    FindIdle /\ PatchIdle /\ CompressIdle /\ EngineIdle /\ CleanupIdle /\ FormatIdle

\* ------------------------------------------------------------------------
\* SpecFind: find_closest_line on every target and key set within bounds
\* ------------------------------------------------------------------------
KeysMap(keys) == [k \in keys |-> AddLine]

FindInit ==
    /\ fpc = "input"
    /\ fTarget \in (1 - (MAX_OFFSET + 1))..(MaxKey + MAX_OFFSET + 1)
    /\ fKeys \in SUBSET (1..MaxKey)
    /\ fResult = None

FindClosest ==
    /\ fpc = "input"
    /\ fResult' = find_closest_line(fTarget, KeysMap(fKeys))
    /\ fpc' = "found"
    /\ UNCHANGED <<fTarget, fKeys>>

\* ------------------------------------------------------------------------
\* SpecPatch: parse_patch_line_map on every valid unified-diff patch
\* ------------------------------------------------------------------------
\* The kind of a line by the unified-diff format: its first character.
IsHeader(raw) == raw.pre[1] = "@"
IsContext(raw) == raw.pre[1] = " "
IsAdded(raw) == raw.pre[1] = "+"
IsDeleted(raw) == raw.pre[1] = "-"
IsMarker(raw) == raw.pre[1] = "\\"

LineAlphabet ==
    {Hdr(c) : c \in 1..MaxStart} \cup
    {CtxLine, AddLine, AddPlusPlus, DelLine, DelMinusMinus, NoNewlineMarker}

\* The header of the hunk that line k of patch p belongs to.
HunkOf(p, k) ==
    CHOOSE h \in 1..k : /\ IsHeader(p[h])
                        /\ \A j \in (h + 1)..k : ~IsHeader(p[j])

\* The last line of the hunk whose header is line h.
HunkEnd(p, h) ==
    CHOOSE e \in h..Len(p) : /\ \A j \in (h + 1)..e : ~IsHeader(p[j])
                             /\ (e = Len(p) \/ IsHeader(p[e + 1]))

\* The new-file line number of line k (an added or a context line) by the
\* format: the new-file start of its hunk plus the context and added lines
\* before it in the hunk.
TrueNewLine(p, k) ==
    LET h == HunkOf(p, k)
    IN p[h].start +
       Cardinality({j \in (h + 1)..(k - 1) : IsContext(p[j]) \/ IsAdded(p[j])})

NewCount(p, h) ==
    Cardinality({j \in (h + 1)..HunkEnd(p, h) : IsContext(p[j]) \/ IsAdded(p[j])})

\* "\ No newline at end of file" follows the last line of the old file or
\* of the new file: no later line of that file follows it.
MarkerPlaced(p, k) ==
    /\ k > 1
    /\ ~IsHeader(p[k - 1]) /\ ~IsMarker(p[k - 1])
    /\ \A j \in (k + 1)..Len(p) :
          /\ ~IsHeader(p[j])
          /\ ~IsContext(p[j])
          /\ (IsDeleted(p[k - 1]) => ~IsDeleted(p[j]))
          /\ (IsAdded(p[k - 1]) => ~IsAdded(p[j]))
          /\ ~IsContext(p[k - 1])

IsValidPatch(p) ==
    /\ Len(p) > 0 => IsHeader(p[1])
    /\ \A h \in 1..Len(p) : IsHeader(p[h]) =>
          \* a hunk changes something
          /\ \E j \in (h + 1)..HunkEnd(p, h) : IsAdded(p[j]) \/ IsDeleted(p[j])
          \* hunks are in ascending order and do not overlap
          /\ \A g \in 1..(h - 1) : IsHeader(p[g]) =>
                p[h].start >= p[g].start + NewCount(p, g)
    /\ \A k \in 1..Len(p) : IsMarker(p[k]) => MarkerPlaced(p, k)

ValidPatches ==
    {p \in UNION {[1..n -> LineAlphabet] : n \in 0..MaxPatchLen} : IsValidPatch(p)}

PatchInit ==
    /\ ppc = "input"
    /\ pPatch \in ValidPatches
    /\ pMap = EmptyMap
    /\ pAssigned = << >>
    /\ pLine = 0
    /\ pContent = None

ParsePatch ==
    /\ ppc = "input"
    /\ pMap' = parse_patch_line_map(pPatch)
    /\ pAssigned' = ParseState(pPatch, Len(pPatch)).assigned
    /\ ppc' = "parsed"
    /\ UNCHANGED <<pPatch, pLine, pContent>>

\* extract_line_content on the line map of the patch
ExtractLineContent ==
    /\ ppc = "parsed"
    /\ \E line \in 1..(MaxStart + MaxPatchLen) :
          /\ pLine' = line
          /\ pContent' = extract_line_content(line, pMap)
    /\ ppc' = "extracted"
    /\ UNCHANGED <<pPatch, pMap, pAssigned>>

\* ------------------------------------------------------------------------
\* SpecCompress: compress_diff_for_summary on file lists and budgets
\* ------------------------------------------------------------------------
CFileKinds ==
    {[status |-> "removed", additions |-> 0, tok |-> 1]} \cup
    {[status |-> "modified", additions |-> a, tok |-> t] : a \in 0..MaxAdd, t \in 1..MaxTok}

\* a run of files too large for any budget that is left
FillKind == [status |-> "modified", additions |-> 0, tok |-> MaxBudget + 1]

FillCounts == {0} \cup ((MaxFill - 2)..MaxFill)

WithNames(kinds) ==
    [i \in DOMAIN kinds |-> [filename |-> i, status |-> kinds[i].status,
                             additions |-> kinds[i].additions, tok |-> kinds[i].tok]]

CFileLists ==
    {WithNames(h \o [i \in 1..k |-> FillKind]) :
        h \in UNION {[1..n -> CFileKinds] : n \in 0..MaxHead}, k \in FillCounts}

CompressInit ==
    /\ cpc = "input"
    /\ cFiles \in CFileLists
    /\ cMaxTokens \in 0..MaxBudget
    /\ cRemovedTok \in 1..MaxTok
    /\ cOut = << >>

Compress ==
    /\ cpc = "input"
    /\ cOut' = compress_diff_for_summary(cFiles, cMaxTokens, cRemovedTok)
    /\ cpc' = "done"
    /\ UNCHANGED <<cFiles, cMaxTokens, cRemovedTok>>

\* ------------------------------------------------------------------------
\* Specifications
\* ------------------------------------------------------------------------
SpecFindInit ==
    FindInit /\ PatchIdle /\ CompressIdle /\ EngineIdle /\ CleanupIdle /\ FormatIdle
    /\ AuxIdle
SpecFindNext ==
    FindClosest /\ UNCHANGED <<patchVars, compressVars, engineVars, cleanupVars, formatVars, auxVars>>
SpecFind == SpecFindInit /\ [][SpecFindNext]_vars

SpecPatchInit ==
    PatchInit /\ FindIdle /\ CompressIdle /\ EngineIdle /\ CleanupIdle /\ FormatIdle
    /\ AuxIdle
nonPatchVars == <<findVars, compressVars, engineVars, cleanupVars, formatVars, auxVars>>
SpecPatchNext ==
    \/ ParsePatch /\ UNCHANGED nonPatchVars
    \/ ExtractLineContent /\ UNCHANGED nonPatchVars
SpecPatch == SpecPatchInit /\ [][SpecPatchNext]_vars

SpecCompressInit ==
    CompressInit /\ FindIdle /\ PatchIdle /\ EngineIdle /\ CleanupIdle /\ FormatIdle
    /\ AuxIdle
SpecCompressNext ==
    Compress /\ UNCHANGED <<findVars, patchVars, engineVars, cleanupVars, formatVars, auxVars>>
SpecCompress == SpecCompressInit /\ [][SpecCompressNext]_vars

SpecFormatInit ==
    FormatInit /\ FindIdle /\ PatchIdle /\ CompressIdle /\ EngineIdle /\ CleanupIdle
    /\ AuxIdle
SpecFormatNext ==
    FormatSummary /\ UNCHANGED <<findVars, patchVars, compressVars, engineVars, cleanupVars, auxVars>>
SpecFormat == SpecFormatInit /\ [][SpecFormatNext]_vars

SpecCleanupInit ==
    CleanupInit /\ FindIdle /\ PatchIdle /\ CompressIdle /\ EngineIdle /\ FormatIdle
    /\ AuxIdle
nonCleanupVars == <<findVars, patchVars, compressVars, engineVars, formatVars, auxVars>>
SpecCleanupNext ==
    \/ IssueGet /\ UNCHANGED nonCleanupVars
    \/ IssueDelete /\ UNCHANGED nonCleanupVars
    \/ ReviewCommentsGet /\ UNCHANGED nonCleanupVars
    \/ ReviewCommentDelete /\ UNCHANGED nonCleanupVars
    \/ ListingFails /\ UNCHANGED nonCleanupVars
SpecCleanup == SpecCleanupInit /\ [][SpecCleanupNext]_vars

SpecJsonInit == JsonInit /\ BaseIdle /\ EnumIdle /\ CandIdle /\ FetchIdle /\ PostIdle
    /\ MainIdle
SpecJsonNext ==
    ExtractJson /\ UNCHANGED <<findVars, patchVars, compressVars, engineVars,
                               cleanupVars, formatVars, enumVars, candVars,
                               fetchVars, postVars, mainVars>>
SpecJson == SpecJsonInit /\ [][SpecJsonNext]_vars

SpecEnumInit == EnumInit /\ BaseIdle /\ JsonIdle /\ CandIdle /\ FetchIdle /\ PostIdle
    /\ MainIdle
SpecEnumNext ==
    BuildFinding /\ UNCHANGED <<findVars, patchVars, compressVars, engineVars,
                                cleanupVars, formatVars, jsonVars, candVars,
                                fetchVars, postVars, mainVars>>
SpecEnum == SpecEnumInit /\ [][SpecEnumNext]_vars

SpecCandidateInit ==
    CandInit /\ BaseIdle /\ JsonIdle /\ EnumIdle /\ FetchIdle /\ PostIdle
    /\ MainIdle
SpecCandidateNext ==
    LoopIteration /\ UNCHANGED <<findVars, patchVars, compressVars, engineVars,
                                 cleanupVars, formatVars, jsonVars, enumVars,
                                 fetchVars, postVars, mainVars>>
SpecCandidate == SpecCandidateInit /\ [][SpecCandidateNext]_vars

SpecFetchInit ==
    FetchInit /\ BaseIdle /\ JsonIdle /\ EnumIdle /\ CandIdle /\ PostIdle
    /\ MainIdle
nonFetchVars == <<findVars, patchVars, compressVars, engineVars, cleanupVars,
                  formatVars, jsonVars, enumVars, candVars, postVars, mainVars>>
SpecFetchNext ==
    \/ FetchPage /\ UNCHANGED nonFetchVars
    \/ FetchFails /\ UNCHANGED nonFetchVars
SpecFetch == SpecFetchInit /\ [][SpecFetchNext]_vars

SpecPostInit ==
    PostInit /\ BaseIdle /\ JsonIdle /\ EnumIdle /\ CandIdle /\ FetchIdle
    /\ MainIdle
nonPostVars == <<findVars, patchVars, compressVars, engineVars, cleanupVars,
                 formatVars, jsonVars, enumVars, candVars, fetchVars, mainVars>>
SpecPostNext ==
    \/ PostSummary /\ UNCHANGED nonPostVars
    \/ SummaryRejected /\ UNCHANGED nonPostVars
    \/ SummaryPosted /\ UNCHANGED nonPostVars
    \/ ReviewRejected /\ UNCHANGED nonPostVars
    \/ ReviewPosted /\ UNCHANGED nonPostVars
SpecPost == SpecPostInit /\ [][SpecPostNext]_vars

SpecMainInit ==
    MainInit /\ BaseIdle /\ JsonIdle /\ EnumIdle /\ CandIdle /\ FetchIdle /\ PostIdle
nonMainVars == <<findVars, patchVars, compressVars, engineVars, cleanupVars,
                 formatVars, jsonVars, enumVars, candVars, fetchVars, postVars>>
SpecMainNext ==
    \/ RunStarts /\ UNCHANGED nonMainVars
    \/ GetPrReturns /\ UNCHANGED nonMainVars
    \/ GetFilesReturns /\ UNCHANGED nonMainVars
    \/ ReviewCallsGateway /\ UNCHANGED nonMainVars
    \/ ReviewReturns /\ UNCHANGED nonMainVars
    \/ PostReturns /\ UNCHANGED nonMainVars
    \/ AwaitRaises /\ UNCHANGED nonMainVars
SpecMain == SpecMainInit /\ [][SpecMainNext]_vars

Init == EngineInit /\ FindIdle /\ PatchIdle /\ CompressIdle /\ CleanupIdle /\ FormatIdle
    /\ AuxIdle
otherVars == <<findVars, patchVars, compressVars, cleanupVars, formatVars, auxVars>>
Next ==
    \/ SummaryCall /\ UNCHANGED otherVars
    \/ SummaryReturn /\ UNCHANGED otherVars
    \/ ReviewAdmit /\ UNCHANGED otherVars
    \/ ReviewReturn /\ UNCHANGED otherVars
    \/ ReviewGathered /\ UNCHANGED otherVars
    \/ LoggingAdmit /\ UNCHANGED otherVars
    \/ LoggingReturn /\ UNCHANGED otherVars
    \/ LoggingGathered /\ UNCHANGED otherVars
Spec == Init /\ [][Next]_vars

\* review() on an event loop that runs every task that can run, with a
\* gateway whose every call returns or raises in the end.  The runs are
\* those on several files (the shapes of one file's candidates do not
\* change what is scheduled).
LiveInit == Init /\ scenario \in {"files", "many"}

SpecLive ==
    /\ LiveInit /\ [][Next]_vars
    /\ WF_engineVars(SummaryCall) /\ WF_engineVars(SummaryReturn)
    /\ WF_engineVars(ReviewAdmit) /\ WF_engineVars(ReviewReturn) /\ WF_engineVars(ReviewGathered)
    /\ WF_engineVars(LoggingAdmit) /\ WF_engineVars(LoggingReturn) /\ WF_engineVars(LoggingGathered)

\* ------------------------------------------------------------------------
\* Claims
\* ------------------------------------------------------------------------

\* C2: for every valid unified-diff patch, parse_patch_line_map never writes
\* the same new-file line number for two different added lines, and every
\* key it writes is the new-file line number of the added line it is written
\* for (new-file start of the hunk, plus one per context line and per added
\* line before it, nothing per deleted line).
C2_KeysAreNewFileLineNumbers ==
    ppc = "parsed" =>
        /\ \A i, j \in DOMAIN pAssigned :
              i # j => pAssigned[i][2] # pAssigned[j][2]
        /\ \A i \in DOMAIN pAssigned :
              pAssigned[i][2] = TrueNewLine(pPatch, pAssigned[i][1])

RECURSIVE SumTok(_)
SumTok(parts) ==
    IF parts = << >> THEN 0
    ELSE (IF Head(parts).kind \in {"deleted", "entry"} THEN Head(parts).tok ELSE 0)
         + SumTok(Tail(parts))

\* C5: the token count of the packed blocks of compress_diff_for_summary
\* (the deleted-files line plus every appended file block) never exceeds
\* maxTokens.
C5_PackedWithinBudget ==
    cpc = "done" => SumTok(cOut) <= cMaxTokens

\* C6: every input file of compress_diff_for_summary is named in the output
\* (packed block, overflow notice or deleted-files line), whatever the
\* number of files that overflow.
C6_EveryFileNamed ==
    cpc = "done" =>
        \A i \in DOMAIN cFiles :
            \E k \in DOMAIN cOut : \E j \in DOMAIN cOut[k].names :
                cOut[k].names[j] = cFiles[i].filename

Unnamed ==
    {i \in DOMAIN cFiles :
        \A k \in DOMAIN cOut : \A j \in DOMAIN cOut[k].names :
            cOut[k].names[j] # cFiles[i].filename}

\* C6 amended: every input file is named in a packed block, in the
\* deleted-files line or in the overflow notice, except the overflow files
\* after the tenth: the notice names the first 10 files that did not fit and
\* covers the others by its count alone (count - 10 files are unnamed, each
\* of them a non-removed file, and the notice is marked as cut).
C6_NamedOrCounted ==
    cpc = "done" =>
        \/ Unnamed = {}
        \/ /\ cOut # << >>
           /\ LET notice == cOut[Len(cOut)]
              IN /\ notice.kind = "overflow"
                 /\ notice.more
                 /\ Len(notice.names) = 10
                 /\ Cardinality(Unnamed) = notice.count - 10
                 /\ \A i \in Unnamed : cFiles[i].status # "removed"

\* C6 witness: 11 files overflow, one of them is not named.
C6_Witness ==
    /\ cpc = "done"
    /\ cOut # << >>
    /\ cOut[Len(cOut)].kind = "overflow"
    /\ cOut[Len(cOut)].count = 11
    /\ Cardinality(Unnamed) = 1

\* The first key hit when probing n+1, n-1, n+2, n-2, n+3, n-3 in that order.
ProbeOrder(n) == <<n + 1, n - 1, n + 2, n - 2, n + 3, n - 3>>
FirstProbeHit(n, keys) ==
    LET order == ProbeOrder(n)
        hits == {i \in DOMAIN order : order[i] \in keys}
    IN IF hits = {} THEN None
       ELSE Some(order[CHOOSE i \in hits : \A j \in hits : i <= j])

\* C3: find_closest_line(n, map) is n when n is a key; otherwise the first
\* key among n+1, n-1, n+2, n-2, n+3, n-3 (so within 3 of n); and None when
\* the map is empty or no key lies within 3 of n.
C3_FindClosestLine ==
    fpc = "found" =>
        /\ fTarget \in fKeys => fResult = Some(fTarget)
        /\ fTarget \notin fKeys => fResult = FirstProbeHit(fTarget, fKeys)
        /\ fResult # None =>
              /\ fResult[1] \in fKeys
              /\ Abs(fResult[1] - fTarget) <= 3
        /\ fResult = None <=>
              (fKeys = {} \/ \A k \in fKeys : Abs(k - fTarget) > 3)

\* C3 witness: n is no key, n+1 and n-1 are no keys, n+2 and n-2 both are:
\* the result is n+2.
C3_Witness ==
    /\ fpc = "found"
    /\ fTarget \notin fKeys
    /\ (fTarget + 1) \notin fKeys /\ (fTarget - 1) \notin fKeys
    /\ (fTarget + 2) \in fKeys /\ (fTarget - 2) \in fKeys
    /\ fResult = Some(fTarget + 2)

\* ------------------------------------------------------------------------
\* Claims about ReviewEngine.review
\* ------------------------------------------------------------------------
Range(q) == {q[i] : i \in DOMAIN q}

\* C1: every comment of the returned ReviewResult, of the review stage or of
\* the logging stage, has a line that is a key of the line map that
\* parse_patch_line_map builds from the patch of the file its path names.
C1_CommentLinesInLineMap ==
    pc = "done" =>
        \A c \in Range(result.comments) :
            /\ c.path \in DOMAIN files
            /\ c.line \in DOMAIN parse_patch_line_map(files[c.path].patch)

\* C1 witness: the result holds a logging comment and a review comment whose
\* candidates named a line that is no key of the file's line map.
RepairedIn(tasks, category) ==
    \E c \in Range(result.comments) : \E i \in DOMAIN tasks :
        /\ c.category = category
        /\ TaskFiles(files)[i].filename = c.path
        /\ tasks[i].resp.kind = "list"
        /\ c.item \in DOMAIN tasks[i].resp.items
        /\ tasks[i].resp.items[c.item].line # Some(c.line)

C1_Witness ==
    /\ pc = "done"
    /\ RepairedIn(rtask, "BEST_PRACTICE")
    /\ RepairedIn(ltask, "LOGGING")

\* The candidates that reach the validation of their line: objects with a
\* line and a non-blank body, in an array whose processing did not raise.
Validated(tasks, i) ==
    IF tasks[i].st = "done" /\ tasks[i].resp.kind = "list" /\ ~tasks[i].exc
    THEN {k \in DOMAIN tasks[i].resp.items :
            LET it == tasks[i].resp.items[k]
            IN it.isdict /\ it.line # None /\ it.line # Some(0) /\ it.body = "text"}
    ELSE {}

Keys(f) == {k \in 1..20 : \E j \in DOMAIN f.patch :
               /\ IsAdded(f.patch[j])
               /\ ~startswith(f.patch[j], <<"+", "+", "+">>)
               /\ TrueNewLine(f.patch, j) = k}

Dist(n, keys) ==
    IF keys = {} THEN 99
    ELSE LET k == CHOOSE x \in keys : \A y \in keys : Abs(x - n) <= Abs(y - n)
         IN Abs(k - n)

FindingsOf(category, path, k) ==
    {c \in Range(result.comments) :
        c.category = category /\ c.path = path /\ c.item = k}

C4_Stage(tasks, category) ==
    \A i \in DOMAIN tasks : \A k \in Validated(tasks, i) :
        LET f == TaskFiles(files)[i]
            n == tasks[i].resp.items[k].line[1]
            d == Dist(n, Keys(f))
            found == FindingsOf(category, f.filename, k)
        IN /\ d = 0 => \E c \in found : c.line = n
           /\ d \in 1..3 => \E c \in found : c.line \in Keys(f) /\ Abs(c.line - n) <= d
           /\ d >= 4 => found = {}
           /\ Cardinality(found) <= 1

\* C4: in both stages, a candidate (that reaches the validation of its line)
\* whose line is a key of the file's line map becomes a finding with that
\* line; one whose line is at distance 1 to 3 from some key becomes a finding
\* at a key within that distance; one whose nearest key is at distance 4 or
\* more, or whose file has no key, produces no finding.
C4_RepairWindow ==
    pc = "done" =>
        /\ C4_Stage(rtask, "BEST_PRACTICE")
        /\ C4_Stage(ltask, "LOGGING")

\* C4 witness: one array of the logging stage holds a candidate at distance
\* 3 of the key (kept) and one at distance 4 (dropped).
C4_Witness ==
    /\ pc = "done"
    /\ \E i \in DOMAIN ltask : \E k1, k2 \in Validated(ltask, i) :
          LET f == TaskFiles(files)[i]
          IN /\ Dist(ltask[i].resp.items[k1].line[1], Keys(f)) = 3
             /\ Dist(ltask[i].resp.items[k2].line[1], Keys(f)) = 4
             /\ FindingsOf("LOGGING", f.filename, k1) # {}
             /\ FindingsOf("LOGGING", f.filename, k2) = {}

SummaryFailed == summaryResp \in {"raise", "nonobject", "badobject"}

\* C7: when the summary call raises, returns a non-object or an object no
\* Summary can be built from, review() does not fail: the summary is the
\* fallback built from len(files) + len(skipped_files), the title and the
\* add/delete counts, and the review stage still runs one call per file
\* with a patch, whose findings are in the result.
C7_SummaryFallback ==
    /\ pc # "failed"
    /\ (SummaryFailed /\ pc = "done") =>
          /\ result.summary.purpose.src = "fallback"
          /\ result.summary.purpose.changed_files = Len(files) + skipped_files
          /\ result.summary.purpose.title = TITLE
          /\ result.summary.changes =
                <<[additions |-> PR_ADDITIONS, deletions |-> PR_DELETIONS]>>
          /\ Len(rtask) = Cardinality({i \in DOMAIN files : files[i].patch # << >>})
          /\ \A i \in DOMAIN rtask :
                /\ rtask[i].st = "done" /\ rtask[i].resp.kind # "none"
                /\ ~rtask[i].exc => Range(rtask[i].out) \subseteq Range(result.comments)

\* C7 witness: the summary payload was an object no Summary can be built
\* from, and the result holds a review finding.
C7_Witness ==
    /\ pc = "done"
    /\ summaryResp = "badobject"
    /\ result.summary.purpose.src = "fallback"
    /\ \E c \in Range(result.comments) : c.category = "BEST_PRACTICE"

CallFailed(t) == t.resp.kind \in {"raise", "nonlist"}

StageComments(category, path) ==
    SelectSeq(result.comments, LAMBDA c : c.category = category /\ c.path = path)

C8_Stage(tasks, category) ==
    \A i \in DOMAIN tasks :
        LET f == TaskFiles(files)[i]
            own == single_file_result(f, tasks[i].resp, category)
        IN \* no task is cancelled: each got the answer of its own call
           /\ tasks[i].st = "done" /\ tasks[i].resp.kind # "none"
           \* a failing file contributes nothing
           /\ CallFailed(tasks[i]) => StageComments(category, f.filename) = << >>
           \* every file contributes what its own answer alone gives
           /\ StageComments(category, f.filename) =
                 (IF own.exc THEN << >> ELSE own.comments)

\* C8: in both stages, a file whose gateway call raises or answers a
\* non-array contributes zero findings, no other task is cancelled, every
\* other file contributes exactly the findings of its own answer, and
\* review() still returns a ReviewResult.
C8_FailureIsolated ==
    /\ pc # "failed"
    /\ pc = "done" =>
          /\ C8_Stage(rtask, "BEST_PRACTICE")
          /\ C8_Stage(ltask, "LOGGING")

\* C8 witness: in each stage the call of the first file failed and the second file
\* contributed a finding.
C8_Witness ==
    /\ pc = "done"
    /\ Len(rtask) = 2 /\ Len(ltask) = 2
    /\ rtask[1].resp.kind = "raise" /\ ltask[1].resp.kind = "nonlist"
    /\ StageComments("BEST_PRACTICE", TaskFiles(files)[2].filename) # << >>
    /\ StageComments("LOGGING", TaskFiles(files)[2].filename) # << >>

\* C9: at every moment the gateway calls in flight within the review stage,
\* and within the logging stage, are at most 5.
C9_BoundedInFlight ==
    /\ Cardinality(InFlight(rtask)) <= 5
    /\ Cardinality(InFlight(ltask)) <= 5

\* C9 witness: 5 calls of the logging stage are in flight and a task waits.
C9_Witness ==
    /\ pc = "logging"
    /\ Cardinality(InFlight(ltask)) = 5
    /\ Pending(ltask) # {}

Started(t) == t.st \in {"inflight", "done"}

\* C10: no review call starts before the summary stage has completed, no
\* logging call starts before every review task has finished, and the
\* ReviewResult is built only after every task of both stages has finished.
C10_StageOrder ==
    /\ (\E i \in DOMAIN rtask : Started(rtask[i])) =>
          summaryResp # "none" /\ summary # NoSummary
    /\ (\E i \in DOMAIN ltask : Started(ltask[i])) =>
          \A j \in DOMAIN rtask : rtask[j].st = "done"
    /\ result # NoResult =>
          /\ \A j \in DOMAIN rtask : rtask[j].st = "done"
          /\ \A j \in DOMAIN ltask : ltask[j].st = "done"
          /\ Len(rtask) = Len(TaskFiles(files))
          /\ suggest_logging => Len(ltask) = Len(TaskFiles(files))

\* C10 witness: the result is built after two review tasks and two logging
\* tasks ran.
C10_Witness ==
    /\ result # NoResult
    /\ Len(rtask) = 2 /\ Len(ltask) = 2
    /\ \A j \in 1..2 : rtask[j].st = "done" /\ ltask[j].st = "done"

StageRank(c) == IF c.category = "LOGGING" THEN 2 ELSE 1

\* The findings of the tasks of a stage that returned a list.
StageOut(tasks) ==
    UNION {Range(tasks[i].out) : i \in {j \in DOMAIN tasks : ~tasks[j].exc}}

RECURSIVE OutCount(_, _)
OutCount(tasks, n) ==
    IF n = 0 THEN 0
    ELSE OutCount(tasks, n - 1) + (IF tasks[n].exc THEN 0 ELSE Len(tasks[n].out))

\* C11: whatever the order in which the tasks complete, the comments of the
\* ReviewResult are the findings of the review tasks followed by those of
\* the logging tasks, each stage grouped by file in the order of the file
\* list, and within a file in the order of the response array.
C11_InputOrder ==
    pc = "done" =>
        LET cs == result.comments
        IN /\ Range(cs) = StageOut(rtask) \cup StageOut(ltask)
           /\ Len(cs) = OutCount(rtask, Len(rtask)) + OutCount(ltask, Len(ltask))
           /\ \A p, q \in DOMAIN cs :
                 p < q =>
                    \/ StageRank(cs[p]) < StageRank(cs[q])
                    \/ /\ StageRank(cs[p]) = StageRank(cs[q])
                       /\ cs[p].path < cs[q].path
                    \/ /\ StageRank(cs[p]) = StageRank(cs[q])
                       /\ cs[p].path = cs[q].path
                       /\ cs[p].item < cs[q].item

\* C11 witness: in both stages the second file's task ended before the first
\* file's, both contributed a finding, and the first file's findings come first.
C11_Witness ==
    /\ pc = "done"
    /\ Len(rtask) = 2 /\ Len(ltask) = 2
    /\ overtaken = {"review", "logging"}
    /\ Len(result.comments) = 4
    /\ result.comments[1].path = 1 /\ result.comments[2].path = 2
    /\ result.comments[3].path = 1 /\ result.comments[4].path = 2

\* The gateway calls of the run that returned a response.
Returned(tasks) == Cardinality({i \in DOMAIN tasks : tasks[i].resp.kind \in {"nonlist", "list"}})

CallsReturned ==
    (IF summaryResp \in {"nonobject", "badobject", "object"} THEN 1 ELSE 0)
    + Returned(rtask) + Returned(ltask)

\* C12: when review() builds the ReviewResult, the accumulated input-token
\* and output-token totals are the sums of the usage reported by every
\* gateway call that returned a response (summary, review and logging
\* calls), for every interleaving and whatever the shape of the payload.
C12_UsageTotals ==
    pc = "done" =>
        /\ total_usage.input_tokens = UsageIn * CallsReturned
        /\ total_usage.output_tokens = UsageOut * CallsReturned

\* C13: the summary call uses the primary tier; a review call uses the
\* lightweight tier if and only if the file's added-line count and its
\* deleted-line count are both at most 15, the primary tier otherwise; every
\* logging call uses the lightweight tier whatever the file's size.
C13_Tiers ==
    \A c \in DOMAIN calls :
        /\ c.stage = "summary" => c.tier = "primary"
        /\ c.stage = "review" =>
              (c.tier = "lightweight" <=>
                  (files[c.path].additions <= 15 /\ files[c.path].deletions <= 15))
        /\ c.stage = "review" => c.tier \in {"lightweight", "primary"}
        /\ c.stage = "logging" => c.tier = "lightweight"

\* C13 witness: a file with 15 added and 16 deleted lines got a primary
\* review call and a lightweight logging call.
C13_Witness ==
    /\ pc = "done"
    /\ \E c, d \in DOMAIN calls :
          /\ c.stage = "review" /\ d.stage = "logging" /\ c.path = d.path
          /\ files[c.path].additions = 15 /\ files[c.path].deletions = 16
          /\ c.tier = "primary" /\ d.tier = "lightweight"

ExpectedCalls ==
    {Call("summary", 0, FALSE)}
    \cup {Call("review", files[i].filename, lw) :
            i \in {j \in DOMAIN files : files[j].patch # << >>}, lw \in BOOLEAN}
    \cup (IF suggest_logging
          THEN {Call("logging", files[i].filename, lw) :
                  i \in {j \in DOMAIN files : files[j].patch # << >>}, lw \in BOOLEAN}
          ELSE {})

CallsOf(stage, path) == {c \in DOMAIN calls : c.stage = stage /\ c.path = path}

\* C14: one run of review() sends exactly one summary call, exactly one
\* review call for each file with a non-empty patch, exactly one logging call
\* for each such file when suggest_logging is enabled and none when it is
\* disabled; no call is sent twice and a file without a patch gets no call.
C14_CallsExactlyOnce ==
    /\ \A c \in DOMAIN calls : calls[c] = 1 /\ c \in ExpectedCalls
    /\ \A c, d \in DOMAIN calls : (c.stage = d.stage /\ c.path = d.path) => c = d
    /\ pc = "done" =>
          /\ Cardinality(CallsOf("summary", 0)) = 1
          /\ \A i \in DOMAIN files :
                /\ Cardinality(CallsOf("review", files[i].filename)) =
                      (IF files[i].patch # << >> THEN 1 ELSE 0)
                /\ Cardinality(CallsOf("logging", files[i].filename)) =
                      (IF files[i].patch # << >> /\ suggest_logging THEN 1 ELSE 0)

\* C14 witness: a run with suggest_logging over a file without a patch and a
\* file with one, whose calls failed: three calls were sent.
C14_Witness ==
    /\ pc = "done"
    /\ suggest_logging
    /\ \E i, j \in DOMAIN files : files[i].patch = << >> /\ files[j].patch # << >>
    /\ \E i \in DOMAIN rtask : rtask[i].resp.kind = "raise"
    /\ \E i \in DOMAIN ltask : ltask[i].resp.kind = "raise"
    /\ Cardinality(DOMAIN calls) = 3

\* The candidates of a returned array with a line that is a key of the
\* file's line map and a non-empty body.
ValidSiblings(tasks, i) ==
    IF tasks[i].resp.kind = "list"
    THEN {k \in DOMAIN tasks[i].resp.items :
            LET it == tasks[i].resp.items[k]
            IN /\ it.isdict /\ it.body = "text" /\ it.line # None
               /\ it.line[1] \in DOMAIN parse_patch_line_map(TaskFiles(files)[i].patch)}
    ELSE {}

C15_Stage(tasks, category) ==
    \A i \in DOMAIN tasks : \A k \in ValidSiblings(tasks, i) :
        \E c \in Range(result.comments) :
            /\ c.category = category
            /\ c.path = TaskFiles(files)[i].filename
            /\ c.item = k
            /\ c.line = tasks[i].resp.items[k].line[1]

\* C15: within the response array of one file, a candidate that is dropped
\* (not an object, line or body missing or empty, line not repairable) never
\* makes a candidate of the same array with a valid line and a non-empty
\* body be dropped: every such candidate is a finding of the result.
C15_SiblingsKept ==
    pc = "done" =>
        /\ C15_Stage(rtask, "BEST_PRACTICE")
        /\ C15_Stage(ltask, "LOGGING")

Ours(listing) == {i \in DOMAIN listing : listing[i].ours}

\* C16: after cleanup_previous_reviews returns with every delete request
\* having succeeded, no issue comment with the marker and no inline comment
\* of the bot remains on the pull request, whatever their number, also when
\* they span more than one page of the listing.
C16_NothingLeft ==
    (kpc = "done" /\ kAllOk) => (Ours(kIssue) = {} /\ Ours(kReview) = {})

\* C19: in the stats line of format_summary_body the review-comment count is
\* the number of comments whose category is not LOGGING, the
\* logging-suggestion count is the number of comments whose category is
\* LOGGING, the two add up to the number of comments, and the
\* logging-suggestion part is present if and only if its count is not zero.
C19_StatsCounts ==
    gpc = "done" =>
        LET nlog == Cardinality({i \in DOMAIN gComments : gComments[i] = "LOGGING"})
            nrev == Cardinality({i \in DOMAIN gComments : gComments[i] # "LOGGING"})
            rev == {i \in DOMAIN gStats : gStats[i].kind = "review comment(s)"}
            logp == {i \in DOMAIN gStats : gStats[i].kind = "logging suggestion(s)"}
        IN /\ Cardinality(rev) = 1
           /\ \A i \in rev : gStats[i].n = nrev
           /\ Cardinality(logp) = (IF nlog # 0 THEN 1 ELSE 0)
           /\ \A i \in logp : gStats[i].n = nlog
           /\ nrev + nlog = Len(gComments)

\* C19 witness: a result with one review comment and two logging
\* suggestions, rendered with both counts.
C19_Witness ==
    /\ gpc = "done"
    /\ gComments = <<"BUG_RISK", "LOGGING", "LOGGING">>
    /\ \E i, j \in DOMAIN gStats :
          /\ gStats[i] = StatsPart("review comment(s)", 1)
          /\ gStats[j] = StatsPart("logging suggestion(s)", 2)

\* C17: for every patch whose changed lines are all deletions (any number of
\* hunks, context lines allowed), parse_patch_line_map returns an empty
\* mapping.
C17_DeletionsOnlyEmpty ==
    (ppc = "parsed" /\ \A k \in DOMAIN pPatch : ~IsAdded(pPatch[k])) =>
        DOMAIN pMap = {}

\* C17 witness: two hunks, a context line and deleted lines, one of them
\* starting with "--"; the map is empty.
C17_Witness ==
    /\ ppc = "parsed"
    /\ Cardinality({k \in DOMAIN pPatch : IsHeader(pPatch[k])}) = 2
    /\ \E k \in DOMAIN pPatch : IsContext(pPatch[k])
    /\ \E k \in DOMAIN pPatch : pPatch[k] = DelLine
    /\ \E k \in DOMAIN pPatch : pPatch[k] = DelMinusMinus
    /\ \A k \in DOMAIN pPatch : ~IsAdded(pPatch[k])
    /\ DOMAIN pMap = {}

\* "@@ -1,3 +1,4 @@", " line1", "+added_line", " line2", " line3"
ScenarioPatch == <<Hdr(1), CtxLine, AddLine, CtxLine, CtxLine>>

\* the position of the added line that a key of the map was last written for
LastWrite(k) ==
    LET ws == {i \in DOMAIN pAssigned : pAssigned[i][2] = k}
    IN pAssigned[CHOOSE i \in ws : \A j \in ws : j <= i][1]

\* C18: the line map maps each key to the content of the added line without
\* the leading "+"; for the scenario patch it is {2: "added_line"}.
C18_ContentWithoutPlus ==
    ppc = "parsed" =>
        /\ \A k \in DOMAIN pMap : pMap[k] = Content(pPatch[LastWrite(k)])
        /\ pPatch = ScenarioPatch =>
              (DOMAIN pMap = {2} /\ pMap[2] = Content(AddLine))

\* C18 amended: the line map maps each key to the raw diff line of the added
\* line, the leading "+" included (for the scenario patch it is
\* {2: "+added_line"}); extract_line_content returns that line without the
\* leading "+", and None for a line that is no key.
C18_RawLineStored ==
    /\ ppc \in {"parsed", "extracted"} =>
          /\ \A k \in DOMAIN pMap :
                /\ pMap[k] = pPatch[LastWrite(k)]
                /\ pMap[k].pre[1] = "+"
          /\ pPatch = ScenarioPatch => (DOMAIN pMap = {2} /\ pMap[2] = AddLine)
    /\ ppc = "extracted" =>
          IF pLine \in DOMAIN pMap
          THEN /\ pContent = Some(Content(pPatch[LastWrite(pLine)]))
               /\ <<"+">> \o pContent[1].pre = pMap[pLine].pre
          ELSE pContent = None

\* C18 witness: the scenario patch, line 2 extracted.
C18_Witness ==
    /\ ppc = "extracted"
    /\ pPatch = ScenarioPatch
    /\ pMap[2] = AddLine
    /\ pLine = 2
    /\ pContent = Some(Content(AddLine))

\* C20: the body of every logging-suggestion finding holds a fenced block
\* tagged "suggestion" with the original content of the target line of the
\* diff together with the suggested log statement.
C20_SuggestionBlock ==
    pc = "done" =>
        \A c \in Range(result.comments) :
            c.category = "LOGGING" =>
                /\ c.body.fence = "suggestion"
                /\ {"original_line", "log_statement"} \subseteq c.body.holds

\* C21: for every JSON text t, _extract_json of t in a fenced code block
\* (with or without the "json" tag, with whitespace around) returns the value
\* it returns for t alone, which is the value of t after trimming; a text
\* that is not valid JSON makes it raise a parse error, fenced or not.
C21_FenceTransparent ==
    jpc = "done" =>
        IF Tokens(jText) \in ValidDocs
        THEN /\ jPlain = Parsed(TRUE, Tokens(jText))
             /\ jFenced = jPlain
        ELSE /\ jPlain = DecodeError
             /\ jFenced = DecodeError

\* C21 witness: a JSON array over three lines with whitespace around, in a
\* padded block tagged json with an indented closing fence.
C21_Witness ==
    /\ jpc = "done"
    /\ jText = <<BlankLine, Line(TRUE, "["), Line(FALSE, "]")>>
    /\ jStyle = Style(FenceJson, TRUE, TRUE)
    /\ jPlain = Parsed(TRUE, <<"[", "]">>)
    /\ jFenced = jPlain

\* a value the enumeration recognises, whatever its case
Recognised(value, cls) == value.kind = "str" /\ lower(value.text) \in cls

\* C22: whatever severity and category value a candidate carries, the
\* finding is built: a recognised value gives its member whatever its
\* case, any other value gives the default (SUGGESTION, BEST_PRACTICE),
\* and the conversion never fails.
C22_ConversionNeverFails ==
    epc = "done" =>
        /\ eOut.exc = ""
        /\ eOut.severity = IF Recognised(eSeverity, ReviewSeverity)
                           THEN lower(eSeverity.text) ELSE "suggestion"
        /\ eOut.category = IF Recognised(eCategory, ReviewCategory)
                           THEN lower(eCategory.text) ELSE "best_practice"

\* C23: a review candidate whose line is missing, null or 0, or whose body
\* is missing or blank, gives no finding; so does a logging candidate
\* whose line is missing, null or 0 or whose log_statement is missing or
\* blank; a logging candidate with a line of the diff and a log statement
\* gives its finding also when reason or level is missing or empty.
C23_SkippedCandidates ==
    qpc = "done" =>
        /\ (qItem.line \in {None, Some(0)} \/ qItem.body \in {"missing", "blank"})
               => qOut.comments = << >>
        /\ (/\ qCategory = "LOGGING"
            /\ qItem.line \notin {None, Some(0)}
            /\ qItem.line[1] \in DOMAIN parse_patch_line_map(FileB.patch)
            /\ qItem.body = "text"
            /\ qItem.reason \in {"missing", "blank", "text"}
            /\ qItem.level \in {"missing", "blank", "text"})
               => /\ ~qOut.exc
                  /\ Len(qOut.comments) = 1
                  /\ qOut.comments[1].line = qItem.line[1]
                  /\ qOut.comments[1].category = "LOGGING"

\* C23 witness: a logging candidate on an added line, without a reason and
\* with an empty level, has given its finding.
C23_Witness ==
    /\ qpc = "done"
    /\ qCategory = "LOGGING"
    /\ qItem = LogItem(TRUE, Some(8), "text", "missing", "blank")
    /\ Len(qOut.comments) = 1

\* file i is considered before file j: more added lines, or as many and
\* earlier in the input
ConsideredBefore(i, j) ==
    \/ cFiles[i].additions > cFiles[j].additions
    \/ cFiles[i].additions = cFiles[j].additions /\ i < j

ActiveFiles == {i \in DOMAIN cFiles : cFiles[i].status # "removed"}

\* the files whose block is in the output, and the other non-removed ones
PackedFiles == {cOut[k].names[1] : k \in {k \in DOMAIN cOut : cOut[k].kind = "entry"}}
SkippedFiles == ActiveFiles \ PackedFiles

RECURSIVE CostOf(_)
CostOf(S) ==
    IF S = {} THEN 0
    ELSE LET i == CHOOSE i \in S : TRUE IN cFiles[i].tok + CostOf(S \ {i})

\* the running token total when file i is considered
RunningTotal(i) ==
    (IF ActiveFiles # DOMAIN cFiles THEN cRemovedTok ELSE 0)
    + CostOf({j \in PackedFiles : ConsideredBefore(j, i)})

Notices == {k \in DOMAIN cOut : cOut[k].kind = "overflow"}

\* C24: the non-removed files are considered by descending added-line
\* count, equal counts in input order; a file's block is appended exactly
\* when the running token total plus its cost is at most maxTokens, and a
\* file that does not fit does not stop the later ones; one overflow notice
\* is appended, last, exactly when some file did not fit, and it names at
\* most 10 of them.
C24_GreedyWithSkip ==
    cpc = "done" =>
        /\ PackedFiles \subseteq ActiveFiles
        /\ \A i \in ActiveFiles :
              i \in PackedFiles <=> RunningTotal(i) + cFiles[i].tok <= cMaxTokens
        /\ \A k, l \in DOMAIN cOut :
              (k < l /\ cOut[k].kind = "entry" /\ cOut[l].kind = "entry")
                  => ConsideredBefore(cOut[k].names[1], cOut[l].names[1])
        /\ Notices = IF SkippedFiles = {} THEN {} ELSE {Len(cOut)}
        /\ \A k \in Notices :
              /\ cOut[k].count = Cardinality(SkippedFiles)
              /\ Len(cOut[k].names) = Min(10, Cardinality(SkippedFiles))
              /\ \A j \in DOMAIN cOut[k].names :
                    /\ cOut[k].names[j] \in SkippedFiles
                    /\ Cardinality({i \in SkippedFiles :
                                       ConsideredBefore(i, cOut[k].names[j])}) = j - 1

\* C24 witness: a file is packed after a file with more added lines was
\* skipped, and the notice closes the output.
C24_Witness ==
    /\ cpc = "done"
    /\ \E i \in SkippedFiles : \E j \in PackedFiles :
          cFiles[i].additions > cFiles[j].additions
    /\ cOut[Len(cOut)].kind = "overflow"

\* The model identifier recorded when the calls of a stage complete in the
\* order of the file list: the last call that returned decides.
RECURSIVE InOrderModel(_, _, _, _)
InOrderModel(tasks, n, stage, model) ==
    IF n = 0 THEN model
    ELSE LET before == InOrderModel(tasks, n - 1, stage, model)
             f == TaskFiles(files)[n]
         IN IF tasks[n].resp.kind = "raise" THEN before
            ELSE Usage(stage = "logging" \/ use_lightweight(f)).model

\* C25: two runs of review() with the same inputs and the same response
\* per call return the same ReviewResult whatever the order in which the
\* concurrent calls complete.  Every combination of responses has a run in
\* which the calls complete in file-list order, so the claim says that the
\* recorded model identifier of every run is the one of that run (the
\* summary, the comments and the file count do not depend on the order).
C25_ModelIndependentOfOrder ==
    pc = "done" =>
        result.model_used =
            InOrderModel(ltask, Len(ltask), "logging",
                InOrderModel(rtask, Len(rtask), "review",
                    generate_summary(summaryResp, 0).usage.model))

\* the files of the input list that have patch content and got a review call
ActuallyReviewed ==
    {i \in DOMAIN files :
        /\ HasPatch(files[i])
        /\ \E c \in DOMAIN calls : c.stage = "review" /\ c.path = files[i].filename}

\* C26: the reviewed-file count of the ReviewResult is the number of files
\* of the input list that have patch content and for which a per-file
\* review call was made.
C26_FilesReviewed ==
    pc = "done" => result.files_reviewed = Cardinality(ActuallyReviewed)

\* a stage has ended: its gather has returned
StageEnded(stage) ==
    IF stage = "review" THEN pc \in {"logging", "done"}
    ELSE pc = "done" /\ suggest_logging

\* C27: when every gateway call returns or raises in the end, review()
\* returns a ReviewResult in the end: no task waits for admission for
\* ever (no task is pending or in flight when its stage has ended), a task
\* gives its permit back also when its call raises (the free permits and
\* the calls in flight add up to the limit), and the gather never fails.
C27_Returns ==
    /\ <>(pc = "done" /\ result # NoResult)
    /\ [](pc # "failed")
    /\ [](StageEnded("review") => InFlight(rtask) = {} /\ Pending(rtask) = {})
    /\ [](StageEnded("logging") => InFlight(ltask) = {} /\ Pending(ltask) = {})
    /\ [](sem + Cardinality(InFlight(IF pc = "logging" THEN ltask ELSE rtask))
             = IF pc \in {"start", "summary"} THEN 0 ELSE MAX_CONCURRENT_REVIEWS)

\* C27 witness: review() has returned after a stage of more tasks than
\* permits in which a call raised.
C27_Witness ==
    /\ pc = "done"
    /\ Len(rtask) > MAX_CONCURRENT_REVIEWS
    /\ \E i \in DOMAIN rtask : rtask[i].resp.kind = "raise"
    /\ sem = MAX_CONCURRENT_REVIEWS

\* how often a filename is in the reviewable list and in the skipped list
TimesIn(q, name) == Cardinality({i \in DOMAIN q : q[i].filename = name})

\* C28: get_pr_files returns at most max_files reviewable files, each with
\* a patch; every file of every fetched page is exactly once in the
\* reviewable list or in the skipped list, there with one reason chosen in
\* the order binary, ignored, no diff, over limit; fetching goes on until
\* the first page that is empty or brings the reviewable plus skipped
\* files to at least 3 * max_files, and stops there.
C28_FetchedFilesSorted ==
    /\ hpc = "returned" =>
          /\ Len(hFiles) <= hMaxFiles
          /\ \A i \in DOMAIN hFiles : hFiles[i].patch
          /\ \A i \in DOMAIN hFetched :
                LET f == hFetched[i]
                    kept == TimesIn(hFiles, f.filename)
                    left == {j \in DOMAIN hSkipped : hSkipped[j].filename = f.filename}
                IN /\ kept + Cardinality(left) = 1
                   /\ \A j \in left :
                         hSkipped[j].reason =
                            IF f.binary THEN "binary"
                            ELSE IF f.ignored THEN "ignored"
                            ELSE IF ~f.patch THEN "no diff"
                            ELSE "over limit"
          /\ Len(hFiles) + Len(hSkipped) = Len(hFetched)
          /\ hLast = 0 \/ Len(hFetched) >= 3 * hMaxFiles
          /\ Len(hFetched) - hLast > 0 => Len(hFetched) - hLast < 3 * hMaxFiles
    /\ (hpc = "fetching" /\ hPage > 1) =>
          hLast # 0 /\ Len(hFetched) < 3 * hMaxFiles

\* C28 witness: two pages were fetched, a binary ignored file without a
\* patch was skipped as binary and a reviewable file as over the limit.
C28_Witness ==
    /\ hpc = "returned"
    /\ hPage > 2
    /\ \E j \in DOMAIN hSkipped : hSkipped[j].reason = "over limit"
    /\ \E i \in DOMAIN hFetched : \E j \in DOMAIN hSkipped :
          /\ hFetched[i].binary /\ hFetched[i].ignored /\ ~hFetched[i].patch
          /\ hSkipped[j] = Skipped(hFetched[i], "binary")

ReviewRequests == {i \in DOMAIN oSent : oSent[i].kind = "review"}

\* C29: post_review sends the marked summary comment before any review
\* request; it sends the review request exactly when the comment list is
\* not empty; when the summary POST fails no review request is sent; it
\* returns 0 exactly when no review request was sent or the answer carries
\* no id.
C29_SummaryThenReview ==
    /\ oSent # << >> => oSent[1] = SummaryRequest
    /\ \A i \in ReviewRequests :
          /\ i = 2
          /\ "summary" \in oCreated
          /\ oSent[i].comments = oComments
    /\ opc = "returned" =>
          /\ ReviewRequests # {} <=> oComments # << >>
          /\ oReturn = Some(0) <=> (ReviewRequests = {} \/ oAnswer = "noid")
    /\ (opc = "raised" /\ "summary" \notin oCreated) => ReviewRequests = {}

\* C29 witness: a review of two comments was posted after the summary and
\* its id returned.
C29_Witness ==
    /\ opc = "returned"
    /\ Len(oComments) = 2
    /\ oSent = <<SummaryRequest, ReviewRequest(oComments)>>
    /\ oReturn = Some(2)

Happened(what) == \E i \in DOMAIN mTrace : mTrace[i] = what

\* the pull request is not to be reviewed
Gated ==
    \/ mSkipDrafts /\ mDraft
    \/ mIgnored
    \/ mBot
    \/ mFiles = Some(0)

\* C30: for a draft with skip_drafts set, an ignored author, a Bot author
\* or an empty list of reviewable files, _run_review makes no gateway call
\* and posts nothing; otherwise the review is posted only after
\* engine.review has returned; run() closes the GitHub client on every
\* path, also when the review raises.
C30_GateThenReviewThenPost ==
    /\ Gated => ~Happened("gateway") /\ ~Happened("post")
    /\ \A i \in DOMAIN mTrace :
          mTrace[i] = "post" => \E j \in 1..(i - 1) : mTrace[j] = "reviewed"
    /\ (mpc = "done" /\ ~Gated) => Happened("post")
    /\ mpc \in {"done", "raised"} <=> Happened("closed")
    /\ \A i \in DOMAIN mTrace : mTrace[i] = "closed" => i = Len(mTrace)

\* C30 witness: the review raised after a gateway call and the client was
\* closed without a post.
C30_Witness ==
    /\ mpc = "raised"
    /\ mTrace = <<"gateway", "closed">>

=============================================================================
